---- MODULE Spec2Model ----
(***************************************************************************)
(* State-machine model of the WebGPU galaxy simulator's resource cache,    *)
(* accumulation ring buffer and frame loop.                                *)
(*                                                                         *)
(* Native GPU objects that can be destroyed (textures, buffers) are        *)
(* numbered 1, 2, ... in creation order; 0 (Null) is the null reference.   *)
(* A texture view is represented by the id of the texture it views, and a  *)
(* bind group by the set of object ids its entries reference (the empty    *)
(* set is the null bind group).  Samplers and layouts have no destroy()    *)
(* and carry no id.                                                        *)
(***************************************************************************)
EXTENDS Integers, Sequences, FiniteSets, TLC

\* ------------------------------------------------------------------------
\* Bounds of the model (not program constants)
\* ------------------------------------------------------------------------

\* Canvas widths and heights range over 2..MaxDim (half resolution is >= 1).
MaxDim == 3

\* At most MaxObjects native objects are created in one behaviour.
MaxObjects == 14

\* The lazily cached classes create at most MaxCachedObjects objects.
MaxCachedObjects == 8

\* Particle counts handed to the visibility resources range over 1..MaxParticles.
MaxParticles == 2

\* A weight keeps this many steps per unit.
WeightResolution == 1000

\* Clip-space coordinates and sizes keep this many steps per unit.
NdcResolution == 20

\* A culling frame is recorded while at most this many commands of earlier
\* frames wait in the queue.
MaxQueued == 0

\* A behaviour of the frame loop runs at most this many handlers ...
MaxHandlers == 2

\* ... and attempts at most this many frames.
MaxFrames == 17

Null == 0

Dims == 2..MaxDim

NoDims == [width |-> -1, height |-> -1]

\* A texture view of the lazily cached classes: its own identity and the
\* texture it was created from.
NoView == [id |-> Null, texture |-> Null]

VARIABLES
    canvas,       \* HTMLCanvasElement: [width, height]
    heap,         \* GPUDevice objects: [nextId, destroyed, again]; again holds
                  \* the objects whose destroy() was called more than once
    hdr,          \* HDRResources (setup-style): hdrTexture, hdrTextureView, lastDims
    bloom,        \* BloomResources (setup-style)
    tone,         \* ToneMapResources
    vis,          \* VisibilityResources
    lazyHdr,      \* HDRResources (lazy getters keyed on width and height)
    msaa,         \* MSAAResources
    denoise,      \* DenoiseResources
    build,        \* the classes installed ("setup" or "lazy") and the simulator
    galaxy,       \* Galaxy: temporalAccumulation, temporalFrame, totalStarCount
    accumulator,  \* AccumulationManager
    accum,        \* AccumulationResources (setup-style)
    lazyAccum,    \* AccumulationResources (lazy getters)
    particles,    \* ParticleResources: the particle storage buffer
    lazyBloom,    \* BloomResources (lazy getters): the half-resolution textures
    simulator,    \* GalaxySimulator: how far its constructor has got
    cull,         \* VisibilityCullCompute: computeBindGroup and its keys
    device,       \* GPU side of the culling: queue, uniforms, buffer contents
    profiler,     \* PerformanceProfiler, the device features and the stored option
    settings,     \* Galaxy: the parameters the user interface sets
    camera,       \* CameraManager with pan and dolly
    temporalDenoise, \* TemporalDenoiseCompute
    overdraw,     \* overdraw counting and debug resources
    fps,          \* FPSManager and performance.now()
    presets,      \* the Galaxy object and the stored presets
    gpu,          \* contents of the accumulation layers and the weights buffer
    lastFrame,    \* the frame attempt the last step made, if it made one
    pending,      \* what happened since the last rendered frame, and the
                  \* handlers and frames the behaviour has run
    boundStale,   \* passes of the last frame that bound a stale bind group
    lastCall,     \* the last getter call: operation, arguments, result, effects
    exercised     \* the cached class whose getters the behaviour calls

vars == <<canvas, heap, hdr, bloom, tone, vis, lazyHdr, msaa, denoise,
          build, galaxy, accumulator, accum, lazyAccum, particles, lazyBloom,
          simulator, cull,
          device,
          profiler,
          settings,
          camera,
          temporalDenoise,
          overdraw,
          fps,
          presets,
          gpu, boundStale, lastCall, exercised, lastFrame, pending>>

\* What the post-processing specification leaves alone.
notResources == <<lastCall, exercised, lastFrame, pending>>

\* What the specification of the cached classes leaves alone.
notCache == <<boundStale, lastFrame, pending>>

\* ------------------------------------------------------------------------
\* Sequencing of statements over the world record
\* ------------------------------------------------------------------------

\* stmt applied to the world w
Then(w, Stmt(_)) == Stmt(w)

\* if (missing) create();
Ensure(w, Missing(_), Create(_)) == IF Missing(w) THEN Create(w) ELSE w

\* ------------------------------------------------------------------------
\* GPUDevice: creation and destruction of native objects
\* ------------------------------------------------------------------------

\* device.createTexture / device.createBuffer: the new object gets the next
\* id and Store(world, id) assigns it to its field.
Create(w, Store(_, _)) ==
    Store([w EXCEPT !.heap.nextId = @ + 1], w.heap.nextId)

\* What a uniform buffer of the device holds: the buffer last written under
\* the name and the value written to it.
NoUniform == [buffer |-> Null, value |-> 0]

\* device.queue.writeBuffer(buffer, 0, value) for the uniform block called
\* name.  gpu.redundant collects the blocks a step rewrote with the value
\* their buffer already held.
device_queue_writeBuffer(w, name, buffer, value) ==
    [w EXCEPT !.gpu.uniforms[name] = [buffer |-> buffer, value |-> value],
              !.gpu.redundant =
                  IF w.gpu.uniforms[name] = [buffer |-> buffer, value |-> value]
                  THEN @ \cup {name}
                  ELSE @]

\* obj?.destroy()
DestroyObj(w, id) ==
    IF id = Null
    THEN w
    ELSE [w EXCEPT !.heap.destroyed = @ \cup {id},
                   !.heap.again = IF id \in w.heap.destroyed THEN @ \cup {id} ELSE @]

\* A bind group is stale when one of its entries references a destroyed object.
Stale(w, bg) == bg \cap w.heap.destroyed # {}

\* ------------------------------------------------------------------------
\* HDRResources (setup-style generation)
\* ------------------------------------------------------------------------

HDRResources_createHDRTexture(w, width, height) ==
    IF w.hdr.hdrTexture # Null /\ w.hdr.lastDims = [width |-> width, height |-> height]
    THEN w
    ELSE Create(DestroyObj(w, w.hdr.hdrTexture),
                LAMBDA v, id : [v EXCEPT !.hdr.hdrTexture = id])

HDRResources_createHDRTextureView(w, width, height) ==
    IF w.hdr.hdrTextureView # Null /\ w.hdr.lastDims = [width |-> width, height |-> height]
    THEN w
    ELSE LET w1 == Ensure(w, LAMBDA v : v.hdr.hdrTexture = Null,
                          LAMBDA v : HDRResources_createHDRTexture(v, width, height))
         IN  Then(w1, LAMBDA v : [v EXCEPT !.hdr.hdrTextureView = v.hdr.hdrTexture])

HDRResources_setup(w) ==
    LET width == w.canvas.width
        height == w.canvas.height
        w1 == Ensure(w, LAMBDA v : \/ width # v.hdr.lastDims.width
                                   \/ height # v.hdr.lastDims.height
                                   \/ v.hdr.hdrTexture = Null
                                   \/ v.hdr.hdrTextureView = Null,
                     LAMBDA v : HDRResources_createHDRTextureView(
                                    HDRResources_createHDRTexture(v, width, height),
                                    width, height))
    IN  [w1 EXCEPT !.hdr.lastDims = [width |-> width, height |-> height]]

HDRResources_destroy(w) ==
    [DestroyObj(w, w.hdr.hdrTexture) EXCEPT !.hdr.hdrTexture = Null,
                                            !.hdr.hdrTextureView = Null]

\* ------------------------------------------------------------------------
\* BloomResources (setup-style generation)
\* ------------------------------------------------------------------------

BloomResources_createBloomTextures(w, width, height) ==
    LET w1 == Create(DestroyObj(w, w.bloom.bloomTexture1),
                     LAMBDA v, id : [v EXCEPT !.bloom.bloomTexture1 = id,
                                              !.bloom.bloomTextureView1 = id])
    IN  Create(DestroyObj(w1, w.bloom.bloomTexture2),
               LAMBDA v, id : [v EXCEPT !.bloom.bloomTexture2 = id,
                                        !.bloom.bloomTextureView2 = id])

\* The writeBuffer() of updateBloomParamsBuffer(bloomThreshold); every caller
\* passes galaxy().bloomThreshold.
BloomResources_writeBloomParams(w) ==
    device_queue_writeBuffer(w, "bloomParamsBuffer", w.bloom.bloomParamsBuffer,
                             w.settings.bloomThreshold)

BloomResources_createBloomParamsBuffer(w) ==
    Then(Create(w, LAMBDA v, id : [v EXCEPT !.bloom.bloomParamsBuffer = id]),
         BloomResources_writeBloomParams)

BloomResources_updateBloomParamsBuffer(w) ==
    IF w.bloom.bloomParamsBuffer = Null
    THEN BloomResources_createBloomParamsBuffer(w)
    ELSE BloomResources_writeBloomParams(w)

BloomResources_createBloomBlurHParamsBuffer(w) ==
    Create(w, LAMBDA v, id : [v EXCEPT !.bloom.bloomBlurHParamsBuffer = id])

BloomResources_createBloomBlurVParamsBuffer(w) ==
    Create(w, LAMBDA v, id : [v EXCEPT !.bloom.bloomBlurVParamsBuffer = id])

BloomResources_createBloomExtractBindGroup(w, width, height) ==
    LET w1 == [w EXCEPT !.bloom.bloomExtractPipeline = TRUE]
        w2 == Ensure(w1, LAMBDA v : v.bloom.bloomParamsBuffer = Null,
                     BloomResources_createBloomParamsBuffer)
        w3 == Ensure(w2, LAMBDA v : v.hdr.hdrTextureView = Null,
                     LAMBDA v : HDRResources_createHDRTextureView(v, width, height))
    IN  Then(w3, LAMBDA v : [v EXCEPT !.bloom.bloomExtractBindGroup =
                                 {v.hdr.hdrTextureView, v.bloom.bloomParamsBuffer}])

BloomResources_createBloomBlurBindGroups(w, width, height) ==
    LET w1 == [w EXCEPT !.bloom.bloomBlurPipeline = TRUE]
        w2 == Ensure(w1, LAMBDA v : v.bloom.bloomBlurHParamsBuffer = Null,
                     BloomResources_createBloomBlurHParamsBuffer)
        w3 == Ensure(w2, LAMBDA v : v.bloom.bloomBlurVParamsBuffer = Null,
                     BloomResources_createBloomBlurVParamsBuffer)
        w4 == Ensure(w3, LAMBDA v : v.bloom.bloomTextureView1 = Null,
                     LAMBDA v : BloomResources_createBloomTextures(v, width, height))
        w5 == Ensure(w4, LAMBDA v : v.bloom.bloomTextureView2 = Null,
                     LAMBDA v : BloomResources_createBloomTextures(v, width, height))
    IN  Then(w5, LAMBDA v :
            [v EXCEPT !.bloom.bloomBlurHBindGroup =
                          {v.bloom.bloomTextureView1, v.bloom.bloomBlurHParamsBuffer},
                      !.bloom.bloomBlurVBindGroup =
                          {v.bloom.bloomTextureView2, v.bloom.bloomBlurVParamsBuffer}])

\* dimsChanged: the bind groups are refreshed only when the HALVED canvas
\* size changed.
BloomResources_setup(w) ==
    LET width == w.canvas.width \div 2
        height == w.canvas.height \div 2
        dimsChanged == width # w.bloom.lastDims.width \/ height # w.bloom.lastDims.height
        w1 == Ensure(w, LAMBDA v : \/ width # v.bloom.lastDims.width
                                   \/ height # v.bloom.lastDims.height
                                   \/ v.bloom.bloomTexture1 = Null
                                   \/ v.bloom.bloomTexture2 = Null
                                   \/ v.bloom.bloomTextureView1 = Null
                                   \/ v.bloom.bloomTextureView2 = Null,
                     LAMBDA v : BloomResources_createBloomTextures(v, width, height))
        w2 == Then(Ensure(w1, LAMBDA v : v.bloom.bloomParamsBuffer = Null,
                          BloomResources_createBloomParamsBuffer),
                   BloomResources_updateBloomParamsBuffer)
        w3 == Ensure(w2, LAMBDA v : v.bloom.bloomBlurHParamsBuffer = Null,
                     BloomResources_createBloomBlurHParamsBuffer)
        w4 == Ensure(w3, LAMBDA v : v.bloom.bloomBlurVParamsBuffer = Null,
                     BloomResources_createBloomBlurVParamsBuffer)
        w5 == [w4 EXCEPT !.bloom.bloomExtractPipeline = TRUE,
                         !.bloom.bloomBlurPipeline = TRUE]
        w6 == Ensure(w5, LAMBDA v : v.bloom.bloomExtractBindGroup = {} \/ dimsChanged,
                     LAMBDA v : BloomResources_createBloomExtractBindGroup(
                                    v, v.canvas.width, v.canvas.height))
        w7 == Ensure(w6, LAMBDA v : \/ v.bloom.bloomBlurHBindGroup = {}
                                    \/ v.bloom.bloomBlurVBindGroup = {}
                                    \/ dimsChanged,
                     LAMBDA v : BloomResources_createBloomBlurBindGroups(v, width, height))
    IN  [w7 EXCEPT !.bloom.lastDims = [width |-> width, height |-> height]]

NoBloom ==
    [bloomTexture1 |-> Null, bloomTexture2 |-> Null,
     bloomTextureView1 |-> Null, bloomTextureView2 |-> Null,
     bloomParamsBuffer |-> Null, bloomBlurHParamsBuffer |-> Null,
     bloomBlurVParamsBuffer |-> Null,
     bloomExtractPipeline |-> FALSE, bloomBlurPipeline |-> FALSE,
     bloomExtractBindGroup |-> {}, bloomBlurHBindGroup |-> {},
     bloomBlurVBindGroup |-> {}, lastDims |-> NoDims]

\* Every field is nulled; lastDims is kept.
BloomResources_destroy(w) ==
    [w EXCEPT !.heap.destroyed =
                  @ \cup ({w.bloom.bloomTexture1, w.bloom.bloomTexture2,
                           w.bloom.bloomParamsBuffer, w.bloom.bloomBlurHParamsBuffer,
                           w.bloom.bloomBlurVParamsBuffer} \ {Null}),
              !.bloom = [NoBloom EXCEPT !.lastDims = w.bloom.lastDims]]

\* ------------------------------------------------------------------------
\* ToneMapResources
\* ------------------------------------------------------------------------

\* populateToneParams(): of the nine tone parameters the model follows the
\* exposure; the other eight keep their values.
ToneMapResources_populateToneParams(w) == w.settings.exposure

\* if (!toneParamsInitialized || toneParamsChanged()) { writeBuffer(...) ... }
ToneMapResources_writeToneParamsIfChanged(w) ==
    IF \/ ~w.tone.toneParamsInitialized
       \/ ToneMapResources_populateToneParams(w) # w.tone.lastToneParams
    THEN [device_queue_writeBuffer(w, "toneParamBuffer", w.tone.toneParamBuffer,
                                   ToneMapResources_populateToneParams(w))
              EXCEPT !.tone.lastToneParams = ToneMapResources_populateToneParams(w),
                     !.tone.toneParamsInitialized = TRUE]
    ELSE w

ToneMapResources_createToneParamBuffer(w) ==
    Then(Create(w, LAMBDA v, id : [v EXCEPT !.tone.toneParamBuffer = id,
                                            !.tone.toneParamsInitialized = FALSE]),
         ToneMapResources_writeToneParamsIfChanged)

ToneMapResources_updateToneParamBuffer(w) ==
    Then(Ensure(w, LAMBDA v : v.tone.toneParamBuffer = Null,
                ToneMapResources_createToneParamBuffer),
         ToneMapResources_writeToneParamsIfChanged)

ToneMapResources_createToneMapBindGroup(w, width, height) ==
    LET w1 == [w EXCEPT !.tone.toneMapPipeline = TRUE]
        w2 == Ensure(w1, LAMBDA v : v.tone.toneParamBuffer = Null,
                     ToneMapResources_createToneParamBuffer)
        w3 == Ensure(w2, LAMBDA v : v.hdr.hdrTextureView = Null,
                     LAMBDA v : HDRResources_createHDRTextureView(v, width, height))
        w4 == Ensure(w3, LAMBDA v : v.bloom.bloomTextureView1 = Null,
                     LAMBDA v : BloomResources_createBloomTextures(v, width, height))
    IN  Then(w4, LAMBDA v : [v EXCEPT !.tone.toneMapBindGroup =
                                 {v.hdr.hdrTextureView, v.tone.toneParamBuffer,
                                  v.bloom.bloomTextureView1}])

ToneMapResources_setup(w) ==
    LET width == w.canvas.width
        height == w.canvas.height
        w1 == [w EXCEPT !.tone.toneMapPipeline = TRUE]
        w2 == Ensure(w1, LAMBDA v : v.tone.toneParamBuffer = Null,
                     ToneMapResources_createToneParamBuffer)
        w3 == Ensure(w2, LAMBDA v : \/ v.tone.toneMapBindGroup = {}
                                    \/ width # v.tone.lastDims.width
                                    \/ height # v.tone.lastDims.height,
                     LAMBDA v : ToneMapResources_createToneMapBindGroup(v, width, height))
    IN  Then(ToneMapResources_updateToneParamBuffer(w3),
             LAMBDA v : [v EXCEPT !.tone.lastDims = [width |-> width, height |-> height]])

ToneMapResources_destroy(w) ==
    [DestroyObj(w, w.tone.toneParamBuffer) EXCEPT !.tone.toneParamBuffer = Null,
                                                  !.tone.toneMapPipeline = FALSE,
                                                  !.tone.toneMapBindGroup = {}]

\* ------------------------------------------------------------------------
\* VisibilityResources
\* ------------------------------------------------------------------------

VisibilityResources_createVisibleIndexBuffer(w, size) ==
    Create(DestroyObj(w, w.vis.visibleIndexBuffer),
           LAMBDA v, id : [v EXCEPT !.vis.visibleIndexBuffer = id,
                                    !.vis.lastVisibleIndexBufferSize = size])

VisibilityResources_getVisibleIndexBuffer(w, maxParticles) ==
    LET requiredSize == 16 + maxParticles * 4
    IN  IF w.vis.visibleIndexBuffer = Null \/ w.vis.lastVisibleIndexBufferSize < requiredSize
        THEN VisibilityResources_createVisibleIndexBuffer(w, requiredSize)
        ELSE w

VisibilityResources_createIndirectDrawBuffer(w) ==
    Create(DestroyObj(w, w.vis.indirectDrawBuffer),
           LAMBDA v, id : [v EXCEPT !.vis.indirectDrawBuffer = id])

VisibilityResources_getIndirectDrawBuffer(w) ==
    IF w.vis.indirectDrawBuffer # Null THEN w
    ELSE VisibilityResources_createIndirectDrawBuffer(w)

VisibilityResources_createPrepareIndirectBindGroup(w, maxParticles) ==
    Then(VisibilityResources_getIndirectDrawBuffer(
             VisibilityResources_getVisibleIndexBuffer(w, maxParticles)),
         LAMBDA v : [v EXCEPT !.vis.prepareIndirectBindGroup =
                                  {v.vis.visibleIndexBuffer, v.vis.indirectDrawBuffer},
                              !.vis.lastPrepareIndirectParticleCount = maxParticles])

VisibilityResources_getPrepareIndirectBindGroup(w, maxParticles) ==
    IF \/ w.vis.prepareIndirectBindGroup = {}
       \/ w.vis.lastPrepareIndirectParticleCount # maxParticles
    THEN VisibilityResources_createPrepareIndirectBindGroup(w, maxParticles)
    ELSE w

\* Only the buffers are released; the cached bind group and its key stay.
VisibilityResources_destroy(w) ==
    [w EXCEPT !.heap.destroyed =
                  @ \cup ({w.vis.visibleIndexBuffer, w.vis.indirectDrawBuffer,
                           w.vis.countReadbackBuffer} \ {Null}),
              !.vis.visibleIndexBuffer = Null,
              !.vis.indirectDrawBuffer = Null,
              !.vis.countReadbackBuffer = Null]

\* ------------------------------------------------------------------------
\* Temporal accumulation: Powers, Galaxy, AccumulationManager
\* ------------------------------------------------------------------------

\* The layers of the accumulation texture array (depthOrArrayLayers: 16).
LayerCount == 16

Layers == 0..(LayerCount - 1)

\* The values of the temporal accumulation slider: Math.pow(2, 0..4).
Depths == {1, 2, 4, 8, 16}

snapToPowerOfTwo(value) ==
    IF value <= 1 THEN 1
    ELSE IF value <= 2 THEN 2
    ELSE IF value <= 4 THEN 4
    ELSE IF value <= 8 THEN 8
    ELSE 16

\* A Float32Array(16) of weights; a weight is held in units of
\* 1/WeightResolution and any finer part is lost, as a float's is.
NoWeights == [i \in Layers |-> 0]

\* A slice weight that does not depend on the number of valid frames.
SliceWeight_oneEach(validFrames) == WeightResolution

\* sliceWeight = 16 / validFrames
SliceWeight(validFrames) == (LayerCount * WeightResolution) \div validFrames

\* for (i < validFrames) target[(accumWriteIndex - i + 16) & 15] = sliceWeight
RingWeights(accumWriteIndex, validFrames) ==
    [i \in Layers |->
        IF (accumWriteIndex - i + LayerCount) % LayerCount < validFrames
        THEN SliceWeight(validFrames) ELSE 0]

Min(a, b) == IF a <= b THEN a ELSE b

AccumulationManager_updateLastTemporalAccumulation(w, value) ==
    [w EXCEPT !.accumulator.lastTemporalAccumulation = value]

AccumulationManager_requestFullRenderNextFrame(w) ==
    [w EXCEPT !.accumulator.oneFrameOverrideRequested = TRUE]

\* Returns whether the override was activated: the caller reads
\* oneFrameOverrideActive of the result.
AccumulationManager_beginOneFrameOverrideIfRequested(w) ==
    IF w.accumulator.oneFrameOverrideRequested
       /\ ~w.accumulator.oneFrameOverrideActive
    THEN [w EXCEPT !.accumulator.oneFrameOverrideActive = TRUE,
                   !.accumulator.oneFrameOverrideRequested = FALSE]
    ELSE w

\* An endOneFrameOverride that leaves the override active.
AccumulationManager_endOneFrameOverride_staysActive(w) == w

AccumulationManager_endOneFrameOverride(w) ==
    [w EXCEPT !.accumulator.oneFrameOverrideActive = FALSE]

AccumulationManager_getEffectiveTemporalAccumulation(w) ==
    IF w.accumulator.oneFrameOverrideActive
    THEN 1 ELSE w.accumulator.lastTemporalAccumulation

AccumulationManager_resetFramesSinceBufferClear(w) ==
    [w EXCEPT !.accumulator.framesSinceBufferClear = 0]

\* An advanceTemporalFrame that wraps at the number of layers instead of the
\* current depth.
AccumulationManager_advanceTemporalFrame_wrapsAtLayerCount(w) ==
    [w EXCEPT !.galaxy.temporalFrame = (@ + 1) % LayerCount]

AccumulationManager_advanceTemporalFrame(w) ==
    [w EXCEPT !.galaxy.temporalFrame =
        (@ + 1) % w.accumulator.lastTemporalAccumulation]

AccumulationManager_incrementFramesSinceClear(w) ==
    IF w.accumulator.framesSinceBufferClear < LayerCount
    THEN [w EXCEPT !.accumulator.framesSinceBufferClear = @ + 1]
    ELSE w

\* ------------------------------------------------------------------------
\* The accumulation texture array and the weights buffer in GPU memory
\* ------------------------------------------------------------------------

\* The layers have not been cleared by a clear pass.
NoClear == [forced |-> FALSE, accumWriteIndex |-> 0, framesSinceBufferClear |-> 0]

\* A clear pass on every layer, or a newly created (zero-filled) texture:
\* no layer holds a rendered frame.
ClearedLayers(w) ==
    [w EXCEPT !.gpu.written = <<>>, !.gpu.old = {}, !.gpu.lastClear = NoClear]

\* The block that cleared the layers has run to its end: whether the clear
\* had been forced, and the write index and the counter the block leaves.
ClearApplied(w, forced, accumWriteIndex) ==
    [w EXCEPT !.gpu.lastClear =
        [forced |-> forced, accumWriteIndex |-> accumWriteIndex,
         framesSinceBufferClear |-> w.accumulator.framesSinceBufferClear]]

\* A render pass resolved into one layer: it becomes the layer written last.
RenderedLayer(w, layer) ==
    [w EXCEPT !.gpu.written = <<layer>> \o SelectSeq(@, LAMBDA l : l # layer),
              !.gpu.old = @ \ {layer}]

\* ------------------------------------------------------------------------
\* AccumulationResources (setup-style generation)
\* ------------------------------------------------------------------------

RECURSIVE AccumulationResources_updateWeightsBuffer(_)

AccumulationResources_createAccumTextureArray(w, width, height) ==
    ClearedLayers(Create(DestroyObj(w, w.accum.accumTextureArray),
                         LAMBDA v, id : [v EXCEPT !.accum.accumTextureArray = id]))

AccumulationResources_createAccumLayerViews(w, width, height) ==
    LET w1 == Ensure(w, LAMBDA v : v.accum.accumTextureArray = Null,
                     LAMBDA v : AccumulationResources_createAccumTextureArray(
                                    v, width, height))
    IN  Then(w1, LAMBDA v :
            [v EXCEPT !.accum.accumLayerViews = v.accum.accumTextureArray])

AccumulationResources_createAccumArrayView(w, width, height) ==
    LET w1 == Ensure(w, LAMBDA v : v.accum.accumTextureArray = Null,
                     LAMBDA v : AccumulationResources_createAccumTextureArray(
                                    v, width, height))
    IN  Then(w1, LAMBDA v :
            [v EXCEPT !.accum.accumArrayView = v.accum.accumTextureArray])

AccumulationResources_createAccumWeightsBuffer(w) ==
    AccumulationResources_updateWeightsBuffer(
        Create(DestroyObj(w, w.accum.accumWeightsBuffer),
               LAMBDA v, id : [v EXCEPT !.accum.accumWeightsBuffer = id,
                                        !.accum.weightsInitialized = FALSE,
                                        !.gpu.weights = NoWeights]))

AccumulationResources_createAccumAverageBindGroup(w, width, height) ==
    LET w1 == [w EXCEPT !.accum.accumAveragePipeline = TRUE]
        w2 == Ensure(w1, LAMBDA v : v.accum.accumArrayView = Null,
                     LAMBDA v : AccumulationResources_createAccumArrayView(
                                    v, width, height))
        w3 == Ensure(w2, LAMBDA v : v.accum.accumWeightsBuffer = Null,
                     AccumulationResources_createAccumWeightsBuffer)
    IN  Then(w3, LAMBDA v :
            [v EXCEPT !.accum.accumAverageBindGroup =
                          {v.accum.accumArrayView, v.accum.accumWeightsBuffer}])

AccumulationResources_populateWeights(w) ==
    LET n == AccumulationManager_getEffectiveTemporalAccumulation(w)
        framesSinceBufferClear == w.accumulator.framesSinceBufferClear
        validFrameBudget == IF w.accum.clearedSinceUpdate
                            THEN Min(1, framesSinceBufferClear)
                            ELSE framesSinceBufferClear
        validFrames == Min(n, validFrameBudget)
    IN  [w EXCEPT !.accum.cachedWeights =
            IF n >= 1 /\ validFrames > 0
            THEN RingWeights(w.accum.accumWriteIndex, validFrames)
            ELSE NoWeights]

\* if (!weightsInitialized || weightsChanged()) writeBuffer(...)
AccumulationResources_writeWeightsIfChanged(w) ==
    IF ~w.accum.weightsInitialized \/ w.accum.cachedWeights # w.accum.lastWeights
    THEN [w EXCEPT !.gpu.weights = w.accum.cachedWeights,
                   !.accum.lastWeights = w.accum.cachedWeights,
                   !.accum.weightsInitialized = TRUE]
    ELSE w

AccumulationResources_updateWeightsBuffer(w) ==
    IF w.accum.accumWeightsBuffer = Null
    THEN AccumulationResources_createAccumWeightsBuffer(w)
    ELSE LET w1 == AccumulationResources_writeWeightsIfChanged(
                       AccumulationResources_populateWeights(w))
         IN  Then(w1, LAMBDA v :
                 AccumulationManager_updateLastTemporalAccumulation(
                     [v EXCEPT !.accum.clearedSinceUpdate = FALSE],
                     AccumulationManager_getEffectiveTemporalAccumulation(v)))

\* A requestForceClear that requests nothing.
AccumulationResources_requestForceClear_ignored(w) == w

AccumulationResources_requestForceClear(w) ==
    [w EXCEPT !.accum.forceClearRequested = TRUE,
              !.accum.clearedSinceUpdate = TRUE]

AccumulationResources_clearAccumulationLayers(w, width, height) ==
    ClearedLayers(Ensure(w, LAMBDA v : v.accum.accumLayerViews = Null,
                         LAMBDA v : AccumulationResources_createAccumLayerViews(
                                        v, width, height)))

AccumulationResources_setup(w) ==
    LET width == w.canvas.width
        height == w.canvas.height
        dimsChanged == \/ w.accum.lastDims.width # width
                       \/ w.accum.lastDims.height # height
        n == snapToPowerOfTwo(w.galaxy.temporalAccumulation)
        lastTemporalAccumulation == w.accumulator.lastTemporalAccumulation
        w1 == Ensure(w, LAMBDA v : \/ v.accum.accumTextureArray = Null
                                   \/ v.accum.accumLayerViews = Null
                                   \/ v.accum.accumArrayView = Null
                                   \/ dimsChanged,
                     LAMBDA v : AccumulationResources_createAccumArrayView(
                                    AccumulationResources_createAccumLayerViews(
                                        AccumulationResources_createAccumTextureArray(
                                            v, width, height),
                                        width, height),
                                    width, height))
        w2 == Ensure(w1, LAMBDA v : \/ n # lastTemporalAccumulation
                                    \/ v.accum.forceClearRequested,
                     LAMBDA v :
                         LET c1 == AccumulationManager_resetFramesSinceBufferClear(
                                       AccumulationResources_clearAccumulationLayers(
                                           [v EXCEPT !.accum.accumWriteIndex = 0],
                                           width, height))
                             c2 == Ensure(c1, LAMBDA u : n # lastTemporalAccumulation,
                                          LAMBDA u :
                                              AccumulationResources_createAccumAverageBindGroup(
                                                  AccumulationManager_updateLastTemporalAccumulation(u, n),
                                                  width, height))
                         IN  Then(c2, LAMBDA u :
                                 ClearApplied(
                                     [u EXCEPT !.accum.forceClearRequested = FALSE,
                                               !.accum.clearedSinceUpdate = TRUE],
                                     u.accum.forceClearRequested,
                                     u.accum.accumWriteIndex)))
        w3 == [w2 EXCEPT !.accum.accumAveragePipeline = TRUE]
        w4 == Ensure(w3, LAMBDA v : v.accum.accumWeightsBuffer = Null,
                     AccumulationResources_createAccumWeightsBuffer)
        w5 == Ensure(w4, LAMBDA v : v.accum.accumAverageBindGroup = {} \/ dimsChanged,
                     LAMBDA v : AccumulationResources_createAccumAverageBindGroup(
                                    v, width, height))
    IN  [AccumulationResources_updateWeightsBuffer(w5)
            EXCEPT !.accum.lastDims = [width |-> width, height |-> height]]

\* The texture and the buffer are destroyed but stay in their fields.
AccumulationResources_destroy(w) ==
    [DestroyObj(DestroyObj(w, w.accum.accumTextureArray), w.accum.accumWeightsBuffer)
        EXCEPT !.accum.accumArrayView = Null,
               !.accum.accumAveragePipeline = FALSE,
               !.accum.accumAverageBindGroup = {},
               !.accum.accumLayerViews = Null,
               !.accum.accumWriteIndex = 0]

\* ------------------------------------------------------------------------
\* AccumulationResources (lazy getters keyed on width and height)
\* ------------------------------------------------------------------------

RECURSIVE LazyAccum_updateWeightsBuffer(_)

LazyAccum_createAccumTextureArray(w, width, height) ==
    ClearedLayers(Create(DestroyObj(w, w.lazyAccum.accumTextureArray),
                         LAMBDA v, id :
                             [v EXCEPT !.lazyAccum.accumTextureArray = id,
                                       !.lazyAccum.lastAccumTextureArrayDims =
                                           [width |-> width, height |-> height]]))

LazyAccum_getAccumTextureArray(w, width, height) ==
    IF \/ w.lazyAccum.accumTextureArray = Null
       \/ w.lazyAccum.lastAccumTextureArrayDims.width # width
       \/ w.lazyAccum.lastAccumTextureArrayDims.height # height
    THEN LazyAccum_createAccumTextureArray(w, width, height)
    ELSE w

LazyAccum_createAccumLayerViews(w, width, height) ==
    Then(LazyAccum_getAccumTextureArray(w, width, height), LAMBDA v :
        [v EXCEPT !.lazyAccum.accumLayerViews = v.lazyAccum.accumTextureArray,
                  !.lazyAccum.lastAccumLayerViewsDims =
                      [width |-> width, height |-> height]])

LazyAccum_getAccumLayerViews(w, width, height) ==
    IF \/ w.lazyAccum.accumLayerViews = Null
       \/ w.lazyAccum.lastAccumLayerViewsDims.width # width
       \/ w.lazyAccum.lastAccumLayerViewsDims.height # height
    THEN LazyAccum_createAccumLayerViews(w, width, height)
    ELSE w

LazyAccum_createAccumArrayView(w, width, height) ==
    Then(LazyAccum_getAccumTextureArray(w, width, height), LAMBDA v :
        [v EXCEPT !.lazyAccum.accumArrayView = v.lazyAccum.accumTextureArray,
                  !.lazyAccum.lastAccumArrayViewDims =
                      [width |-> width, height |-> height]])

LazyAccum_getAccumArrayView(w, width, height) ==
    IF \/ w.lazyAccum.accumArrayView = Null
       \/ w.lazyAccum.lastAccumArrayViewDims.width # width
       \/ w.lazyAccum.lastAccumArrayViewDims.height # height
    THEN LazyAccum_createAccumArrayView(w, width, height)
    ELSE w

LazyAccum_getAccumAveragePipeline(w) ==
    [w EXCEPT !.lazyAccum.accumAveragePipeline = TRUE]

LazyAccum_createAccumWeightsBuffer(w) ==
    LazyAccum_updateWeightsBuffer(
        Create(DestroyObj(w, w.lazyAccum.accumWeightsBuffer),
               LAMBDA v, id : [v EXCEPT !.lazyAccum.accumWeightsBuffer = id,
                                        !.lazyAccum.weightsInitialized = FALSE,
                                        !.gpu.weights = NoWeights]))

LazyAccum_getAccumWeightsBuffer(w) ==
    IF w.lazyAccum.accumWeightsBuffer = Null
    THEN LazyAccum_createAccumWeightsBuffer(w)
    ELSE w

\* The entries are evaluated in order, the bind group is assigned last.
LazyAccum_createAccumAverageBindGroup(w, width, height) ==
    LET w1 == LazyAccum_getAccumWeightsBuffer(
                  LazyAccum_getAccumArrayView(
                      LazyAccum_getAccumAveragePipeline(w), width, height))
    IN  Then(w1, LAMBDA v :
            [v EXCEPT !.lazyAccum.accumAverageBindGroup =
                          {v.lazyAccum.accumArrayView, v.lazyAccum.accumWeightsBuffer},
                      !.lazyAccum.lastAccumAverageBindGroupDims =
                          [width |-> width, height |-> height]])

LazyAccum_getAccumAverageBindGroup(w, width, height) ==
    IF \/ w.lazyAccum.accumAverageBindGroup = {}
       \/ w.lazyAccum.lastAccumAverageBindGroupDims.width # width
       \/ w.lazyAccum.lastAccumAverageBindGroupDims.height # height
    THEN LazyAccum_createAccumAverageBindGroup(w, width, height)
    ELSE w

LazyAccum_advanceAccumWriteIndex_skipsLayer(w) ==
    [w EXCEPT !.lazyAccum.accumWriteIndex = (@ + 2) % LayerCount]

LazyAccum_advanceAccumWriteIndex(w) ==
    [w EXCEPT !.lazyAccum.accumWriteIndex = (@ + 1) % LayerCount]

LazyAccum_clearAccumulationLayers(w, width, height) ==
    ClearedLayers(LazyAccum_getAccumLayerViews(w, width, height))

LazyAccum_prepareAccumulationState(w, width, height) ==
    LET sizeChanged == \/ width # w.lazyAccum.lastAccumTextureArrayDims.width
                       \/ height # w.lazyAccum.lastAccumTextureArrayDims.height
        targetAccumulation == snapToPowerOfTwo(w.galaxy.temporalAccumulation)
        effectiveAccumulation == AccumulationManager_getEffectiveTemporalAccumulation(w)
        targetChanged ==
            targetAccumulation # w.lazyAccum.lastResolvedTemporalAccumulation
        shouldClear == w.lazyAccum.forceClearRequested \/ sizeChanged \/ targetChanged
        w1 == LazyAccum_getAccumArrayView(
                  LazyAccum_getAccumLayerViews(
                      LazyAccum_getAccumTextureArray(w, width, height),
                      width, height),
                  width, height)
        w2 == Ensure(w1, LAMBDA v : targetChanged,
                     LAMBDA v :
                         AccumulationManager_updateLastTemporalAccumulation(
                             [v EXCEPT
                                 !.lazyAccum.lastResolvedTemporalAccumulation =
                                     targetAccumulation,
                                 !.lazyAccum.accumWriteIndex = 0,
                                 !.lazyAccum.accumAverageBindGroup = {},
                                 !.lazyAccum.weightsInitialized = FALSE],
                             targetAccumulation))
        w3 == Ensure(w2, LAMBDA v :
                         effectiveAccumulation # v.lazyAccum.lastEffectiveAccumulation,
                     LAMBDA v :
                         [v EXCEPT
                             !.lazyAccum.lastEffectiveAccumulation = effectiveAccumulation,
                             !.lazyAccum.accumWriteIndex = 0,
                             !.lazyAccum.accumAverageBindGroup = {},
                             !.lazyAccum.weightsInitialized = FALSE])
        w4 == Ensure(w3, LAMBDA v : sizeChanged,
                     LAMBDA v : [v EXCEPT !.lazyAccum.accumWriteIndex = 0,
                                          !.lazyAccum.weightsInitialized = FALSE])
        w5 == Ensure(w4, LAMBDA v : shouldClear,
                     LAMBDA v :
                         Then(LazyAccum_clearAccumulationLayers(
                                  [v EXCEPT !.lazyAccum.weightsInitialized = FALSE],
                                  width, height),
                              LAMBDA u :
                                  ClearApplied(
                                      [u EXCEPT !.lazyAccum.accumWriteIndex = 0,
                                                !.lazyAccum.forceClearRequested = FALSE],
                                      u.lazyAccum.forceClearRequested, 0)))
    IN  LazyAccum_getAccumAverageBindGroup(w5, width, height)

LazyAccum_populateWeights(w) ==
    LET n == AccumulationManager_getEffectiveTemporalAccumulation(w)
    IN  [w EXCEPT !.lazyAccum.cachedWeights =
            IF n > 0 THEN RingWeights(w.lazyAccum.accumWriteIndex, n)
            ELSE NoWeights]

\* if (!weightsInitialized || weightsChanged()) writeBuffer(...)
LazyAccum_writeWeightsIfChanged(w) ==
    IF \/ ~w.lazyAccum.weightsInitialized
       \/ w.lazyAccum.cachedWeights # w.lazyAccum.lastWeights
    THEN Then(LazyAccum_getAccumWeightsBuffer(w), LAMBDA v :
             [v EXCEPT !.gpu.weights = v.lazyAccum.cachedWeights,
                       !.lazyAccum.lastWeights = v.lazyAccum.cachedWeights,
                       !.lazyAccum.weightsInitialized = TRUE])
    ELSE w

LazyAccum_updateWeightsBuffer(w) ==
    LET w1 == Ensure(w, LAMBDA v :
                         AccumulationManager_getEffectiveTemporalAccumulation(v)
                             # v.lazyAccum.lastEffectiveAccumulation,
                     LAMBDA v : [v EXCEPT !.lazyAccum.weightsInitialized = FALSE])
        w2 == LazyAccum_writeWeightsIfChanged(
                  LazyAccum_populateWeights(
                      LazyAccum_prepareAccumulationState(
                          w1, w.canvas.width, w.canvas.height)))
    IN  Then(w2, LAMBDA v :
            AccumulationManager_updateLastTemporalAccumulation(
                v, snapToPowerOfTwo(v.galaxy.temporalAccumulation)))

LazyAccum_requestForceClear(w) ==
    [w EXCEPT !.lazyAccum.forceClearRequested = TRUE]

LazyAccum_destroy(w) ==
    [DestroyObj(DestroyObj(w, w.lazyAccum.accumTextureArray),
                w.lazyAccum.accumWeightsBuffer)
        EXCEPT !.lazyAccum.accumArrayView = Null,
               !.lazyAccum.accumAveragePipeline = FALSE,
               !.lazyAccum.accumAverageBindGroup = {},
               !.lazyAccum.accumLayerViews = Null,
               !.lazyAccum.accumWriteIndex = 0,
               !.lazyAccum.lastEffectiveAccumulation = 0]

\* ------------------------------------------------------------------------
\* The objects a ResourceManager holds: setup-style or lazy classes
\* ------------------------------------------------------------------------

accumulationResources_setup(w) ==
    IF w.build.classes = "lazy" THEN w ELSE AccumulationResources_setup(w)

accumulationResources_updateWeightsBuffer(w) ==
    IF w.build.classes = "lazy"
    THEN LazyAccum_updateWeightsBuffer(w)
    ELSE AccumulationResources_updateWeightsBuffer(w)

accumulationResources_requestForceClear(w) ==
    IF w.build.classes = "lazy"
    THEN LazyAccum_requestForceClear(w)
    ELSE AccumulationResources_requestForceClear(w)

accumulationResources_accumWriteIndex(w) ==
    IF w.build.classes = "lazy"
    THEN w.lazyAccum.accumWriteIndex ELSE w.accum.accumWriteIndex

\* ------------------------------------------------------------------------
\* AccumulationManager: the per-frame update
\* ------------------------------------------------------------------------

AccumulationManager_updateResourcesIfChanged(w, newAcc) ==
    IF newAcc = w.accumulator.lastTemporalAccumulation
    THEN w
    ELSE accumulationResources_setup(
             [w EXCEPT !.galaxy.temporalAccumulation = newAcc,
                       !.accumulator.lastTemporalAccumulation = newAcc])

AccumulationManager_handleAccumulationChange(w) ==
    LET galaxySnapped == snapToPowerOfTwo(w.galaxy.temporalAccumulation)
    IN  IF galaxySnapped = w.accumulator.lastTemporalAccumulation
        THEN w
        ELSE Then(AccumulationManager_updateResourcesIfChanged(w, galaxySnapped),
                  LAMBDA v : IF v.galaxy.temporalFrame >= galaxySnapped
                             THEN [v EXCEPT !.galaxy.temporalFrame = 0]
                             ELSE v)

\* An update() that leaves the temporal frame counter where it is.
AccumulationManager_update_withoutAdvance(w) ==
    AccumulationManager_incrementFramesSinceClear(
        AccumulationManager_handleAccumulationChange(w))

AccumulationManager_update(w) ==
    AccumulationManager_incrementFramesSinceClear(
        AccumulationManager_advanceTemporalFrame(
            AccumulationManager_handleAccumulationChange(w)))

\* ------------------------------------------------------------------------
\* HDRResources (lazy generation): getters keyed on (width, height)
\* ------------------------------------------------------------------------

\* A createHDRTexture that forgets to record the size it was created for.
LazyHDR_createHDRTexture_keyNotRecorded(w, width, height) ==
    Create(DestroyObj(w, w.lazyHdr.hdrTexture),
           LAMBDA v, id : [v EXCEPT !.lazyHdr.hdrTexture = id,
                                    !.lazyHdr.hdrTextureView = NoView])

LazyHDR_createHDRTexture(w, width, height) ==
    Create(DestroyObj(w, w.lazyHdr.hdrTexture),
           LAMBDA v, id : [v EXCEPT !.lazyHdr.hdrTexture = id,
                                    !.lazyHdr.lastHDRTextureDims =
                                        [width |-> width, height |-> height],
                                    !.lazyHdr.hdrTextureView = NoView])

LazyHDR_getHDRTexture(w, width, height) ==
    IF \/ w.lazyHdr.hdrTexture = Null
       \/ w.lazyHdr.lastHDRTextureDims.width # width
       \/ w.lazyHdr.lastHDRTextureDims.height # height
    THEN LazyHDR_createHDRTexture(w, width, height)
    ELSE w

LazyHDR_createHDRTextureView(w, width, height) ==
    Create(LazyHDR_getHDRTexture(w, width, height),
           LAMBDA v, id : [v EXCEPT !.lazyHdr.hdrTextureView =
                                        [id |-> id, texture |-> v.lazyHdr.hdrTexture],
                                    !.lazyHdr.lastHDRTextureViewDims =
                                        [width |-> width, height |-> height]])

LazyHDR_getHDRTextureView(w, width, height) ==
    IF \/ w.lazyHdr.hdrTextureView = NoView
       \/ w.lazyHdr.lastHDRTextureViewDims.width # width
       \/ w.lazyHdr.lastHDRTextureViewDims.height # height
    THEN LazyHDR_createHDRTextureView(w, width, height)
    ELSE w

LazyHDR_destroy(w) ==
    [DestroyObj(w, w.lazyHdr.hdrTexture) EXCEPT !.lazyHdr.hdrTexture = Null,
                                                !.lazyHdr.hdrTextureView = NoView]

\* ------------------------------------------------------------------------
\* MSAAResources
\* ------------------------------------------------------------------------

MSAAResources_createMSAATexture(w, width, height) ==
    Create(DestroyObj(w, w.msaa.msaaTexture),
           LAMBDA v, id : [v EXCEPT !.msaa.msaaTexture = id,
                                    !.msaa.lastMSAATextureDims =
                                        [width |-> width, height |-> height]])

MSAAResources_getMSAATexture(w, width, height) ==
    IF \/ w.msaa.msaaTexture = Null
       \/ w.msaa.lastMSAATextureDims.width # width
       \/ w.msaa.lastMSAATextureDims.height # height
    THEN MSAAResources_createMSAATexture(w, width, height)
    ELSE w

MSAAResources_createMSAATextureView(w, width, height) ==
    Create(MSAAResources_getMSAATexture(w, width, height),
           LAMBDA v, id : [v EXCEPT !.msaa.msaaTextureView =
                                        [id |-> id, texture |-> v.msaa.msaaTexture],
                                    !.msaa.lastMSAATextureViewDims =
                                        [width |-> width, height |-> height]])

MSAAResources_getMSAATextureView(w, width, height) ==
    IF \/ w.msaa.msaaTextureView = NoView
       \/ w.msaa.lastMSAATextureViewDims.width # width
       \/ w.msaa.lastMSAATextureViewDims.height # height
    THEN MSAAResources_createMSAATextureView(w, width, height)
    ELSE w

MSAAResources_destroy(w) ==
    [DestroyObj(w, w.msaa.msaaTexture) EXCEPT !.msaa.msaaTexture = Null,
                                              !.msaa.msaaTextureView = NoView]

\* ------------------------------------------------------------------------
\* DenoiseResources
\* ------------------------------------------------------------------------

\* device.createTexture followed by createView on the new texture: the view
\* is numbered like the texture it is created with.
DenoiseResources_createTextureAndView(w, texture, view) ==
    Create(w, LAMBDA v, id : [v EXCEPT !.denoise[texture] = id,
                                       !.denoise[view] = [id |-> id, texture |-> id]])

DenoiseResources_ensureTextures(w, width, height) ==
    IF w.denoise.lastDims.width = width /\ w.denoise.lastDims.height = height
    THEN w
    ELSE LET w1 == [w EXCEPT !.heap.destroyed =
                                 @ \cup ({w.denoise.currentFrameTexture,
                                          w.denoise.denoisedTexture,
                                          w.denoise.historyTexture} \ {Null})]
             w2 == DenoiseResources_createTextureAndView(
                       w1, "currentFrameTexture", "currentFrameView")
             w3 == DenoiseResources_createTextureAndView(
                       w2, "denoisedTexture", "denoisedView")
             w4 == DenoiseResources_createTextureAndView(
                       w3, "historyTexture", "historyView")
         IN  [w4 EXCEPT !.denoise.lastDims = [width |-> width, height |-> height]]

NoDenoise ==
    [currentFrameTexture |-> Null, currentFrameView |-> NoView,
     denoisedTexture |-> Null, denoisedView |-> NoView,
     historyTexture |-> Null, historyView |-> NoView,
     lastDims |-> NoDims]

DenoiseResources_destroy(w) ==
    [w EXCEPT !.heap.destroyed =
                  @ \cup ({w.denoise.currentFrameTexture, w.denoise.denoisedTexture,
                           w.denoise.historyTexture} \ {Null}),
              !.denoise = NoDenoise]

\* ------------------------------------------------------------------------
\* ResourceManager and RenderingManager: the post-processing chain
\* ------------------------------------------------------------------------

\* setup() of the lazy classes is empty.
ResourceManager_setup(w) ==
    accumulationResources_updateWeightsBuffer(
        IF w.build.classes = "lazy"
        THEN w
        ELSE ToneMapResources_setup(BloomResources_setup(HDRResources_setup(w))))

ResourceManager_destroy(w) ==
    IF w.build.classes = "lazy"
    THEN MSAAResources_destroy(LazyHDR_destroy(LazyAccum_destroy(w)))
    ELSE HDRResources_destroy(
             ToneMapResources_destroy(
                 BloomResources_destroy(AccumulationResources_destroy(w))))

\* The passes of applyPostProcessing that run, with the bind group each binds.
RenderingManager_applyPostProcessing(w) ==
    LET extract == /\ w.bloom.bloomExtractPipeline
                   /\ w.bloom.bloomExtractBindGroup # {}
                   /\ w.bloom.bloomTextureView1 # Null
        blurH == /\ extract
                 /\ w.bloom.bloomBlurPipeline
                 /\ w.bloom.bloomBlurHBindGroup # {}
                 /\ w.bloom.bloomTextureView2 # Null
        blurV == blurH /\ w.bloom.bloomBlurVBindGroup # {}
        toneMap == /\ extract
                   /\ w.tone.toneMapPipeline
                   /\ w.tone.toneMapBindGroup # {}
    IN  [bloomExtract |-> IF extract THEN w.bloom.bloomExtractBindGroup ELSE {},
         blurH |-> IF blurH THEN w.bloom.bloomBlurHBindGroup ELSE {},
         blurV |-> IF blurV THEN w.bloom.bloomBlurVBindGroup ELSE {},
         toneMap |-> IF toneMap THEN w.tone.toneMapBindGroup ELSE {}]

\* Names of the passes whose bound bind group references a destroyed object.
StalePasses(w, passes) ==
    {p \in DOMAIN passes : Stale(w, passes[p])}

\* ------------------------------------------------------------------------
\* RenderingManager: one frame through the accumulation ring
\* ------------------------------------------------------------------------

\* The weights are computed before renderStars writes layer accumWriteIndex.
RenderingManager_updateAccumulationWeights(w) ==
    LET n == AccumulationManager_getEffectiveTemporalAccumulation(w)
        validFrames == Min(n, w.accumulator.framesSinceBufferClear)
    IN  IF w.accum.accumWeightsBuffer = Null
        THEN w
        ELSE [w EXCEPT !.gpu.weights =
                 IF n >= 1 /\ validFrames > 0
                 THEN RingWeights(w.accum.accumWriteIndex, validFrames)
                 ELSE NoWeights]

RenderingManager_renderStars(w) ==
    LET w1 == Ensure(w, LAMBDA v : v.accum.accumLayerViews = Null,
                     LAMBDA v : AccumulationResources_createAccumLayerViews(
                                    v, v.canvas.width, v.canvas.height))
    IN  Then(w1, LAMBDA v :
            [RenderedLayer(v, v.accum.accumWriteIndex)
                EXCEPT !.accum.accumWriteIndex = (@ + 1) % LayerCount])

\* render() counting the frame before it tests what it needs.
RenderingManager_render_countsFirst(w) ==
    IF \/ w.accum.accumTextureArray = Null
       \/ w.accum.accumLayerViews = Null
       \/ w.galaxy.totalStarCount = 0
    THEN [world |-> w, success |-> FALSE, submitted |-> FALSE, frameCount |-> 1]
    ELSE [world |-> RenderingManager_renderStars(
                        RenderingManager_updateAccumulationWeights(w)),
          success |-> TRUE, submitted |-> TRUE, frameCount |-> 1]

\* render() of the setup-style generation: the world it leaves, the boolean
\* it returns, whether it reached queue.submit() and by how much it advanced
\* this.frameCount.
RenderingManager_render(w) ==
    IF \/ w.accum.accumTextureArray = Null
       \/ w.accum.accumLayerViews = Null
       \/ w.galaxy.totalStarCount = 0
    THEN [world |-> w, success |-> FALSE, submitted |-> FALSE, frameCount |-> 0]
    ELSE [world |-> RenderingManager_renderStars(
                        RenderingManager_updateAccumulationWeights(w)),
          success |-> TRUE, submitted |-> TRUE, frameCount |-> 1]

LazyRendering_renderStars(w) ==
    LET width == w.canvas.width
        height == w.canvas.height
        w1 == MSAAResources_getMSAATextureView(
                  LazyAccum_getAccumLayerViews(w, width, height), width, height)
    IN  Then(w1, LAMBDA v :
            LazyAccum_advanceAccumWriteIndex(
                RenderedLayer(v, v.lazyAccum.accumWriteIndex)))

LazyRendering_averageAccumulationTextures(w) ==
    LazyAccum_getAccumAverageBindGroup(
        LazyAccum_getAccumAveragePipeline(
            LazyHDR_getHDRTextureView(w, w.canvas.width, w.canvas.height)),
        w.canvas.width, w.canvas.height)

\* render() of the lazy generation.
LazyRendering_render(w) ==
    IF w.galaxy.totalStarCount = 0
    THEN [world |-> w, success |-> FALSE, submitted |-> FALSE, frameCount |-> 0]
    ELSE [world |-> LazyRendering_averageAccumulationTextures(
                        LazyRendering_renderStars(
                            LazyAccum_updateWeightsBuffer(w))),
          success |-> TRUE, submitted |-> TRUE, frameCount |-> 1]

renderer_render(w) ==
    IF w.build.classes = "lazy" THEN LazyRendering_render(w) ELSE RenderingManager_render(w)

\* ------------------------------------------------------------------------
\* GalaxySimulator: the handlers that touch the accumulation ring
\* ------------------------------------------------------------------------

StarCounts == {0, MaxParticles}

GalaxySimulator_resetAccumulationBuffers(w, immediate) ==
    LET w1 == accumulationResources_requestForceClear(
                  AccumulationManager_requestFullRenderNextFrame(w))
    IN  IF immediate THEN accumulationResources_setup(w1) ELSE w1

\* The callbacks handed to the galaxy.  The first simulator requests a full
\* render, the second one resets the accumulation buffers; both then refresh
\* the resources of the stage (setup() of the lazy classes is empty).
GalaxySimulator_onUniformDataChanged(w) ==
    IF w.build.simulator = "v1"
    THEN AccumulationManager_requestFullRenderNextFrame(w)
    ELSE GalaxySimulator_resetAccumulationBuffers(w, TRUE)

\* updateToneParameters(): the first simulator follows setup() with a
\* writeBuffer() of galaxy.getToneParametersArray() to the public buffer
\* field of the setup-style class, the second one only calls setup().
GalaxySimulator_updateToneParameters(w) ==
    IF w.build.classes # "setup"
    THEN w
    ELSE IF w.build.simulator = "v1"
         THEN Then(ToneMapResources_setup(w),
                   LAMBDA v : device_queue_writeBuffer(v, "toneParamBuffer",
                                  v.tone.toneParamBuffer, v.settings.exposure))
         ELSE ToneMapResources_setup(w)

\* updateBloomParameters(), likewise with cachedBloomParamsArray
GalaxySimulator_updateBloomParameters(w) ==
    IF w.build.classes # "setup"
    THEN w
    ELSE IF w.build.simulator = "v1"
         THEN Then(BloomResources_setup(w),
                   LAMBDA v : device_queue_writeBuffer(v, "bloomParamsBuffer",
                                  v.bloom.bloomParamsBuffer, v.settings.bloomThreshold))
         ELSE BloomResources_setup(w)

GalaxySimulator_onToneParametersChanged(w) ==
    GalaxySimulator_updateToneParameters(GalaxySimulator_onUniformDataChanged(w))

GalaxySimulator_onBloomParametersChanged(w) ==
    GalaxySimulator_updateBloomParameters(GalaxySimulator_onUniformDataChanged(w))

Galaxy_setTotalStarCount(w, val) ==
    GalaxySimulator_onUniformDataChanged([w EXCEPT !.galaxy.totalStarCount = val])

\* Object.assign(this, preset) and then the callbacks; a preset holds no
\* accumulation depth.
Galaxy_updateFromPreset(w, preset) ==
    GalaxySimulator_onBloomParametersChanged(
        GalaxySimulator_onToneParametersChanged(
            GalaxySimulator_onUniformDataChanged(
                [w EXCEPT !.galaxy.totalStarCount = preset.totalStarCount])))

\* updateKey("temporalAccumulation", value)
UIManager_updateKey(w, value) ==
    [w EXCEPT !.galaxy.temporalAccumulation = value,
              !.galaxy.temporalFrame = 0]

GalaxySimulator_update(w) == AccumulationManager_update(w)

\* What render() returned for the world w it was called in, and whether it
\* left the contents of the GPU and the accumulation resources (write index
\* and weights included) as it found them.
RenderOutcome(w, r) ==
    [world |-> r.world, success |-> r.success, submitted |-> r.submitted,
     frameCount |-> r.frameCount,
     untouched |-> /\ r.world.gpu = w.gpu
                   /\ r.world.accum = w.accum
                   /\ r.world.lazyAccum = w.lazyAccum]

\* render() as the simulator calls it.
GalaxySimulator_render(w) == RenderOutcome(w, renderer_render(w))

\* The end of a frame whose render() returned r: the override is closed if
\* this frame opened it.
FrameOutcome(overrideActive, r) ==
    [world |-> IF overrideActive
               THEN AccumulationManager_endOneFrameOverride(r.world)
               ELSE r.world,
     success |-> r.success,
     submitted |-> r.submitted,
     frameCount |-> r.frameCount,
     untouched |-> r.untouched,
     override |-> r.world.accumulator.oneFrameOverrideActive,
     effective |-> AccumulationManager_getEffectiveTemporalAccumulation(r.world)]

\* One pass through the frame: the world it leaves, what render() returned,
\* whether the override was active in it and the effective depth it used.
GalaxySimulator_immediateRender(w) ==
    FrameOutcome(/\ w.accumulator.oneFrameOverrideRequested
                 /\ ~w.accumulator.oneFrameOverrideActive,
                 GalaxySimulator_render(
                     GalaxySimulator_update(
                         AccumulationManager_beginOneFrameOverrideIfRequested(w))))

\* The layers rendered before the switch are marked old until they are
\* cleared or overwritten.
GalaxySimulator_selectPreset(w, preset) ==
    LET w1 == Galaxy_updateFromPreset(
                  [w EXCEPT !.gpu.old = @ \cup {w.gpu.written[k] : k \in DOMAIN w.gpu.written}],
                  preset)
    IN  GalaxySimulator_immediateRender(
            accumulationResources_setup(
                accumulationResources_requestForceClear(
                    [w1 EXCEPT !.galaxy.temporalFrame = 0])))

GalaxySimulator_resize(w, width, height) ==
    AccumulationManager_requestFullRenderNextFrame(
        ResourceManager_setup(
            [w EXCEPT !.canvas = [width |-> width, height |-> height]]))

\* ------------------------------------------------------------------------
\* The world: every object of the simulator in one record
\* ------------------------------------------------------------------------

\* The fields of GalaxySimulator in the order its constructor assigns them.
ConstructionOrder ==
    <<"galaxy", "camera", "particleRenderer", "accumulator", "resources",
      "performanceProfiler", "fps", "memoryProfiler", "particles", "renderer", "ui">>

\* assigned fields of ConstructionOrder are set; inside: the constructor of
\* the next field's class is running and its object already exists.
Constructed == [assigned |-> Len(ConstructionOrder), inside |-> FALSE]

\* The parameters of a Galaxy the model follows, in units of the model:
\* sizes in world units, particleSizeVariation in halves.
NoSettings ==
    [brightStarSize |-> 1, dustParticleSize |-> 1, particleSizeVariation |-> 0,
     overdrawDebug |-> FALSE, maxFrameRate |-> 30, maxOverdraw |-> 4096,
     exposure |-> 1, bloomThreshold |-> 1, denoiseTemporalAlpha |-> 1]

\* The camera as its constructor leaves it: panX and panY in halves of the
\* screen, dolly in whole distances.
\* CountOverdrawResources, DrawOverdrawResources and the bind groups of
\* ParticleResources before any setup(); events are the overdraw operations
\* of the current step.
NoOverdraw ==
    [overdrawCountBuffer |-> FALSE, clearOverdrawPipeline |-> FALSE,
     clearOverdrawDimensionsBuffer |-> FALSE, clearOverdrawBindGroup |-> FALSE,
     lastDims |-> NoDims,
     overdrawPipeline |-> FALSE,
     particlePipelineLayout |-> FALSE,
     particleBindGroup |-> FALSE, particleBindGroupNoOverdraw |-> FALSE,
     particleLastDims |-> NoDims, lastOverdrawDisabled |-> "null",
     lastParticleStorageBuffer |-> Null,
     events |-> {}]

\* FPSManager as constructed; times are in hundredths of a millisecond and
\* targetFrameTime = 1000 / 60 is kept as its divisor.  clock is what
\* performance.now() last returned.
NoFps == [lastRenderTime |-> 0, targetFrameTime |-> 60, clock |-> 0]

\* The own properties of a Galaxy after its field initialisers ran, as
\* Object.assign and the rest spread see them (a few of the fifty), numbers
\* in tenths; and localStorage without presets.
Galaxy_fields ==
    [time |-> 0, exposure |-> 0, overdrawDebug |-> FALSE,
     hdrMode |-> "standard", callbacks |-> "undefined",
     cachedGpuArray |-> "Float32Array"]

NoPresets == [galaxy |-> Galaxy_fields, stored |-> <<>>]

NoCamera == [panX |-> 0, panY |-> 0, dolly |-> 10]

\* paramsScratch of the denoiser as the device holds it: temporalAlpha in
\* tenths, pans and dollies in the units of the camera.
NoDenoiseParams ==
    [temporalAlpha |-> 0, prevPanX |-> 0, prevPanY |-> 0, currPanX |-> 0, currPanY |-> 0,
     prevDolly |-> 0, currDolly |-> 0]

\* The fields of a TemporalDenoiseCompute before setup(); params is what the
\* params buffer holds.
NoTemporalDenoise ==
    [paramsBuffer |-> FALSE, resetFramesRemaining |-> 0,
     prevCameraPanX |-> 0, prevCameraPanY |-> 0, prevCameraDolly |-> 10,
     params |-> NoDenoiseParams]

\* The profiler as its constructor leaves it, on a device with the
\* timestamp-query feature and nothing stored under "showAdvancedOptions".
\* mapping is the result buffer whose mapAsync() is pending and frameCount
\* the frame count of the rendering manager, kept modulo the timing
\* resolution.
NoProfiler ==
    [timestampQuery |-> TRUE, showAdvancedOptions |-> "null",
     querySet |-> Null, queryBuffer |-> Null, resultBuffer |-> Null,
     isReadingTimingResults |-> FALSE, gpuTimes |-> "zero",
     mapping |-> Null, frameCount |-> 0]

\* The null bind group of the culling pass: the buffers of bindings 1 and 2
\* and the size of the latter.
NoCullBindGroup == [particles |-> Null, visible |-> Null, size |-> 0]

\* Indices of the particle buffer.
ParticleIds == 0..(MaxParticles - 1)

\* Where the culling shader finds a particle: clipPos is
\* cull.viewProjMat * vec4(calcPos(p), 0, 1) and worldSize the size main()
\* computes for it, both in steps of 1 / NdcResolution.
Placement(x, y, w, worldSize) ==
    [clipPos |-> [x |-> x, y |-> y, w |-> w], worldSize |-> worldSize]

\* A zero-initialised visible buffer: the atomic count and the indices.
ZeroBuffer == [count |-> 0, indices |-> <<>>]

\* The device before any culling frame: nothing queued, the uniform buffer
\* and every visible buffer zero-initialised, the readback buffer unmapped.
\* waitFor is the number of queued commands a pending mapAsync() waits for.
NoDevice ==
    [queue |-> <<>>, encoder |-> <<>>,
     totalStarCount |-> 0,
     scene |-> [id \in ParticleIds |-> Placement(0, 0, 0, 0)],
     visible |-> <<>>,
     mapState |-> "unmapped", readback |-> 0, waitFor |-> 0]

\* What the generator has written: the buffer it last filled and, for every
\* slot of that buffer, the totalStarCount the slot was generated under (0 for
\* a slot still zero-initialised).
NoParticleData == [buffer |-> Null, slots |-> [id \in ParticleIds |-> 0]]

\* The fields before the constructor body runs, for a canvas of the given size.
FreshWorld(width, height) ==
    [canvas |-> [width |-> width, height |-> height],
     heap |-> [nextId |-> 1, destroyed |-> {}, again |-> {}],
     hdr |-> [hdrTexture |-> Null, hdrTextureView |-> Null, lastDims |-> NoDims],
     bloom |-> NoBloom,
     tone |-> [toneMapPipeline |-> FALSE, toneParamBuffer |-> Null,
               toneMapBindGroup |-> {}, lastDims |-> NoDims,
               lastToneParams |-> 0, toneParamsInitialized |-> FALSE],
     vis |-> [visibleIndexBuffer |-> Null, lastVisibleIndexBufferSize |-> 0,
              indirectDrawBuffer |-> Null, prepareIndirectBindGroup |-> {},
              lastPrepareIndirectParticleCount |-> 0,
              countReadbackBuffer |-> Null, lastVisibleCount |-> 0],
     lazyHdr |-> [hdrTexture |-> Null, hdrTextureView |-> NoView,
                  lastHDRTextureDims |-> NoDims, lastHDRTextureViewDims |-> NoDims],
     msaa |-> [msaaTexture |-> Null, msaaTextureView |-> NoView,
               lastMSAATextureDims |-> NoDims, lastMSAATextureViewDims |-> NoDims],
     denoise |-> NoDenoise,
     build |-> [classes |-> "setup", simulator |-> "v1"],
     galaxy |-> [temporalAccumulation |-> 1, temporalFrame |-> 0,
                 totalStarCount |-> MaxParticles],
     accumulator |-> [lastTemporalAccumulation |-> 1,
                      framesSinceBufferClear |-> LayerCount,
                      oneFrameOverrideRequested |-> FALSE,
                      oneFrameOverrideActive |-> FALSE],
     accum |-> [accumTextureArray |-> Null, accumLayerViews |-> Null,
                accumArrayView |-> Null, accumWriteIndex |-> 0,
                accumAveragePipeline |-> FALSE, accumWeightsBuffer |-> Null,
                accumAverageBindGroup |-> {}, lastDims |-> NoDims,
                forceClearRequested |-> FALSE, weightsInitialized |-> FALSE,
                cachedWeights |-> NoWeights, lastWeights |-> NoWeights,
                clearedSinceUpdate |-> TRUE],
     lazyAccum |-> [accumTextureArray |-> Null, accumLayerViews |-> Null,
                    accumArrayView |-> Null, accumWriteIndex |-> 0,
                    accumAveragePipeline |-> FALSE, accumWeightsBuffer |-> Null,
                    accumAverageBindGroup |-> {},
                    forceClearRequested |-> FALSE, weightsInitialized |-> FALSE,
                    cachedWeights |-> NoWeights, lastWeights |-> NoWeights,
                    lastResolvedTemporalAccumulation |-> 1,
                    lastEffectiveAccumulation |-> 1,
                    lastAccumTextureArrayDims |-> NoDims,
                    lastAccumLayerViewsDims |-> NoDims,
                    lastAccumArrayViewDims |-> NoDims,
                    lastAccumAverageBindGroupDims |-> NoDims],
     particles |-> [particleStorageBuffer |-> Null, size |-> 0,
                    lastParticleStorageBufferSize |-> 0, previousBuffers |-> {},
                    lastParticleCount |-> 0],
     lazyBloom |-> [bloomTexture1 |-> Null, bloomTexture2 |-> Null,
                    bloomTextureView1 |-> Null, bloomTextureView2 |-> Null,
                    lastBloomTexturesDims |-> NoDims],
     simulator |-> Constructed,
     cull |-> [computeBindGroup |-> NoCullBindGroup, lastParticleCount |-> 0,
              lastParticleStorageBuffer |-> Null],
     device |-> NoDevice,
     profiler |-> NoProfiler,
     settings |-> NoSettings,
     camera |-> NoCamera,
     temporalDenoise |-> NoTemporalDenoise,
     overdraw |-> NoOverdraw,
     fps |-> NoFps,
     presets |-> NoPresets,
     gpu |-> [written |-> <<>>, old |-> {}, weights |-> NoWeights,
              lastClear |-> NoClear,
              uniforms |-> [name \in {"toneParamBuffer", "bloomParamsBuffer"} |-> NoUniform],
              particleData |-> NoParticleData,
              redundant |-> {}]]

World ==
    [canvas |-> canvas, heap |-> heap, hdr |-> hdr, bloom |-> bloom,
     tone |-> tone, vis |-> vis, lazyHdr |-> lazyHdr, msaa |-> msaa,
     denoise |-> denoise, build |-> build, galaxy |-> galaxy,
     accumulator |-> accumulator, accum |-> accum, lazyAccum |-> lazyAccum,
     particles |-> particles, lazyBloom |-> lazyBloom, simulator |-> simulator,
     cull |-> cull,
     device |-> device,
     profiler |-> profiler,
     settings |-> settings,
     camera |-> camera,
     temporalDenoise |-> temporalDenoise,
     overdraw |-> [overdraw EXCEPT !.events = {}],
     fps |-> fps,
     presets |-> presets,
     gpu |-> [gpu EXCEPT !.redundant = {}]]

\* The behaviour starts in world w.
Start(w) ==
    /\ canvas = w.canvas
    /\ heap = w.heap
    /\ hdr = w.hdr
    /\ bloom = w.bloom
    /\ tone = w.tone
    /\ vis = w.vis
    /\ lazyHdr = w.lazyHdr
    /\ msaa = w.msaa
    /\ denoise = w.denoise
    /\ build = w.build
    /\ galaxy = w.galaxy
    /\ accumulator = w.accumulator
    /\ accum = w.accum
    /\ lazyAccum = w.lazyAccum
    /\ particles = w.particles
    /\ lazyBloom = w.lazyBloom
    /\ simulator = w.simulator
    /\ cull = w.cull
    /\ device = w.device
    /\ profiler = w.profiler
    /\ settings = w.settings
    /\ camera = w.camera
    /\ temporalDenoise = w.temporalDenoise
    /\ overdraw = w.overdraw
    /\ fps = w.fps
    /\ presets = w.presets
    /\ gpu = w.gpu

\* The step ends in world w; at most MaxObjects objects are ever created.
Commit(w) ==
    /\ w.heap.nextId <= MaxObjects + 1
    /\ canvas' = w.canvas
    /\ heap' = w.heap
    /\ hdr' = w.hdr
    /\ bloom' = w.bloom
    /\ tone' = w.tone
    /\ vis' = w.vis
    /\ lazyHdr' = w.lazyHdr
    /\ msaa' = w.msaa
    /\ denoise' = w.denoise
    /\ build' = w.build
    /\ galaxy' = w.galaxy
    /\ accumulator' = w.accumulator
    /\ accum' = w.accum
    /\ lazyAccum' = w.lazyAccum
    /\ particles' = w.particles
    /\ lazyBloom' = w.lazyBloom
    /\ simulator' = w.simulator
    /\ cull' = w.cull
    /\ device' = w.device
    /\ profiler' = w.profiler
    /\ settings' = w.settings
    /\ camera' = w.camera
    /\ temporalDenoise' = w.temporalDenoise
    /\ overdraw' = w.overdraw
    /\ fps' = w.fps
    /\ presets' = w.presets
    /\ gpu' = w.gpu

\* No frame was attempted by the last step.
NoFrame ==
    [op |-> "none", rendered |-> FALSE, override |-> FALSE, effective |-> 0,
     after |-> {}, depthBefore |-> 0, afterOverride |-> FALSE,
     submitted |-> FALSE, frameCount |-> 0, untouched |-> TRUE,
     afterFailure |-> FALSE]

NothingPending ==
    [events |-> {}, depth |-> 0, handlers |-> 0, frames |-> 0, failed |-> FALSE]

NoCall ==
    [op |-> "none", width |-> 0, height |-> 0, ret |-> Null,
     repeat |-> FALSE, same |-> FALSE, created |-> 0, destroyed |-> 0]

\* ------------------------------------------------------------------------
\* Specification of the post-processing chain and the visibility buffers
\* (setup-style generation)
\* ------------------------------------------------------------------------

\* new AccumulationManager(simulator)
AccumulationManager_constructor(w) ==
    [w EXCEPT !.accumulator.lastTemporalAccumulation = w.galaxy.temporalAccumulation]

\* new ResourceManager(simulator): the lazy AccumulationResources reads the
\* galaxy and the accumulator in its constructor.
ResourceManager_constructor(w) ==
    IF w.build.classes = "lazy"
    THEN [w EXCEPT !.lazyAccum.lastResolvedTemporalAccumulation =
                       snapToPowerOfTwo(w.galaxy.temporalAccumulation),
                   !.lazyAccum.lastEffectiveAccumulation =
                       AccumulationManager_getEffectiveTemporalAccumulation(w)]
    ELSE w

\* new GalaxySimulator(...) on the world w of fresh fields: the managers are
\* constructed and resources.setup() is called.
GalaxySimulator_constructor(w) ==
    ResourceManager_setup(
        ResourceManager_constructor(AccumulationManager_constructor(w)))

ResInit ==
    /\ \E width \in Dims, height \in Dims :
           Start(GalaxySimulator_constructor(FreshWorld(width, height)))
    /\ boundStale = {}
    /\ lastCall = NoCall
    /\ exercised = "none"
    /\ lastFrame = NoFrame
    /\ pending = NothingPending

\* GalaxySimulator.resize(width, height)
Resize(width, height) ==
    /\ Commit(GalaxySimulator_resize(World, width, height))
    /\ UNCHANGED <<boundStale, notResources>>

\* onOverdrawDebugChanged -> handleOverdrawDebugChange
OverdrawDebugChange ==
    /\ Commit(ResourceManager_setup(World))
    /\ UNCHANGED <<boundStale, notResources>>

\* onToneParametersChanged -> updateToneParameters
UpdateToneParameters ==
    /\ Commit(ToneMapResources_setup(World))
    /\ UNCHANGED <<boundStale, notResources>>

\* onBloomParametersChanged -> updateBloomParameters
UpdateBloomParameters ==
    /\ Commit(BloomResources_setup(World))
    /\ UNCHANGED <<boundStale, notResources>>

\* ResourceManager.destroy()
DestroyResources ==
    /\ Commit(ResourceManager_destroy(World))
    /\ UNCHANGED <<boundStale, notResources>>

\* One frame's post-processing passes.
PostProcess ==
    /\ boundStale' = StalePasses(World, RenderingManager_applyPostProcessing(World))
    /\ Commit(World)
    /\ UNCHANGED notResources

\* VisibilityResources.clearVisibleCount(encoder, maxParticles): the buffer is
\* fetched (and grown if too small), then its count is cleared.
ClearVisibleCount(maxParticles) ==
    /\ Commit(VisibilityResources_getVisibleIndexBuffer(World, maxParticles))
    /\ UNCHANGED <<boundStale, notResources>>

\* VisibilityResources.dispatchPrepareIndirect(encoder, maxParticles)
DispatchPrepareIndirect(maxParticles) ==
    /\ Commit(VisibilityResources_getPrepareIndirectBindGroup(World, maxParticles))
    /\ boundStale' = StalePasses([heap |-> heap'],
                                 [prepareIndirect |-> vis'.prepareIndirectBindGroup])
    /\ UNCHANGED notResources

\* VisibilityResources.destroy()
DestroyVisibility ==
    /\ Commit(VisibilityResources_destroy(World))
    /\ UNCHANGED <<boundStale, notResources>>

ResNext ==
    \/ \E width \in Dims, height \in Dims : Resize(width, height)
    \/ OverdrawDebugChange
    \/ UpdateToneParameters
    \/ UpdateBloomParameters
    \/ DestroyResources
    \/ PostProcess
    \/ \E n \in 1..MaxParticles : ClearVisibleCount(n)
    \/ \E n \in 1..MaxParticles : DispatchPrepareIndirect(n)
    \/ DestroyVisibility

SpecResources == ResInit /\ [][ResNext]_vars

\* C1: no pass binds a bind group that references a destroyed (replaced)
\* view or buffer, whatever resizes, setup() calls, parameter changes and
\* destroy() calls came before.
C1_NoStaleBinding == boundStale = {}

\* ------------------------------------------------------------------------
\* Specification of the lazily cached resources (HDR, MSAA, denoise)
\* ------------------------------------------------------------------------

\* The getter op was called with (width, height), left the world w and
\* returned ret.
Call(op, width, height, w, ret) ==
    /\ w.heap.nextId <= MaxCachedObjects + 1
    /\ Commit(w)
    /\ lastCall' = [op |-> op, width |-> width, height |-> height, ret |-> ret,
                    repeat |-> /\ lastCall.op = op
                               /\ lastCall.width = width
                               /\ lastCall.height = height,
                    same |-> ret = lastCall.ret,
                    created |-> w.heap.nextId - heap.nextId,
                    destroyed |-> Cardinality(w.heap.destroyed \ heap.destroyed)]
    /\ UNCHANGED <<exercised, notCache>>

\* A destroy() call: it ends any run of equal getter calls.
CallDestroy(w) ==
    /\ Commit(w)
    /\ lastCall' = [NoCall EXCEPT !.op = "destroy"]
    /\ UNCHANGED <<exercised, notCache>>

\* The three classes share no field, so a behaviour exercises one of them.
\* The getters take the size as arguments: the canvas plays no part.
CacheInit ==
    /\ Start(FreshWorld(MaxDim, MaxDim))
    /\ boundStale = {}
    /\ lastCall = NoCall
    /\ exercised \in {"HDRResources", "MSAAResources", "DenoiseResources"}
    /\ lastFrame = NoFrame
    /\ pending = NothingPending

GetHDRTexture(width, height) ==
    /\ exercised = "HDRResources"
    /\ Call("getHDRTexture", width, height,
            LazyHDR_getHDRTexture(World, width, height),
            LazyHDR_getHDRTexture(World, width, height).lazyHdr.hdrTexture)

GetHDRTextureView(width, height) ==
    /\ exercised = "HDRResources"
    /\ Call("getHDRTextureView", width, height,
            LazyHDR_getHDRTextureView(World, width, height),
            LazyHDR_getHDRTextureView(World, width, height).lazyHdr.hdrTextureView.id)

GetMSAATexture(width, height) ==
    /\ exercised = "MSAAResources"
    /\ Call("getMSAATexture", width, height,
            MSAAResources_getMSAATexture(World, width, height),
            MSAAResources_getMSAATexture(World, width, height).msaa.msaaTexture)

GetMSAATextureView(width, height) ==
    /\ exercised = "MSAAResources"
    /\ Call("getMSAATextureView", width, height,
            MSAAResources_getMSAATextureView(World, width, height),
            MSAAResources_getMSAATextureView(World, width, height).msaa.msaaTextureView.id)

\* getCurrentFrameView, getDenoisedView, getDenoisedTexture, getHistoryView
\* and getHistoryTexture: ensureTextures, then the field is returned.
GetDenoise(field, width, height) ==
    /\ exercised = "DenoiseResources"
    /\ Call(field, width, height,
            DenoiseResources_ensureTextures(World, width, height),
            IF field \in {"denoisedTexture", "historyTexture"}
            THEN DenoiseResources_ensureTextures(World, width, height).denoise[field]
            ELSE DenoiseResources_ensureTextures(World, width, height).denoise[field].id)

DestroyHDR ==
    /\ exercised = "HDRResources"
    /\ CallDestroy(LazyHDR_destroy(World))

DestroyMSAA ==
    /\ exercised = "MSAAResources"
    /\ CallDestroy(MSAAResources_destroy(World))

DestroyDenoise ==
    /\ exercised = "DenoiseResources"
    /\ CallDestroy(DenoiseResources_destroy(World))

CacheNext ==
    \/ \E width \in Dims, height \in Dims : GetHDRTexture(width, height)
    \/ \E width \in Dims, height \in Dims : GetHDRTextureView(width, height)
    \/ \E width \in Dims, height \in Dims : GetMSAATexture(width, height)
    \/ \E width \in Dims, height \in Dims : GetMSAATextureView(width, height)
    \/ \E field \in {"currentFrameView", "denoisedView", "denoisedTexture",
                     "historyView", "historyTexture"},
          width \in Dims, height \in Dims :
           GetDenoise(field, width, height)
    \/ DestroyHDR
    \/ DestroyMSAA
    \/ DestroyDenoise

SpecCache == CacheInit /\ [][CacheNext]_vars

\* C10: a cached resource requested twice in a row with the same
\* (width, height) is the same instance the second time, and the second
\* request creates no object and destroys none.
C10_RepeatedRequestIsCached ==
    lastCall.repeat =>
        /\ lastCall.same
        /\ lastCall.created = 0
        /\ lastCall.destroyed = 0

\* A view getter is repeated after its texture had been recreated.
C10_Witness ==
    /\ lastCall.repeat
    /\ lastCall.op = "getMSAATextureView"
    /\ heap.destroyed # {}


\* ------------------------------------------------------------------------
\* Specification of the frame loop and the accumulation ring
\* ------------------------------------------------------------------------

Builds == [classes : {"setup", "lazy"}, simulator : {"v1", "v2"}]

AccInit ==
    /\ \E b \in Builds, depth \in Depths :
           Start(GalaxySimulator_constructor(
               [FreshWorld(MaxDim, MaxDim) EXCEPT
                   !.build = b, !.galaxy.temporalAccumulation = depth]))
    /\ boundStale = {}
    /\ lastCall = NoCall
    /\ exercised = "none"
    /\ lastFrame = NoFrame
    /\ pending = NothingPending

\* The step made the frame attempt r.
FrameStep(op, r) ==
    /\ Commit(r.world)
    /\ lastFrame' = [op |-> op, rendered |-> r.success, override |-> r.override,
                     effective |-> r.effective, after |-> pending.events,
                     depthBefore |-> pending.depth,
                     afterOverride |-> lastFrame.rendered /\ lastFrame.override,
                     submitted |-> r.submitted, frameCount |-> r.frameCount,
                     untouched |-> r.untouched,
                     afterFailure |-> pending.failed]
    /\ pending.frames < MaxFrames
    /\ pending' = [events |-> IF r.success THEN {} ELSE pending.events,
                   depth |-> IF r.success
                             THEN snapToPowerOfTwo(galaxy.temporalAccumulation)
                             ELSE pending.depth,
                   handlers |-> pending.handlers + (IF op = "mainLoop" THEN 0 ELSE 1),
                   frames |-> pending.frames + 1,
                   failed |-> ~r.success]
    /\ boundStale' = IF r.success /\ build.classes = "setup"
                     THEN StalePasses(r.world,
                                      RenderingManager_applyPostProcessing(r.world))
                     ELSE boundStale
    /\ UNCHANGED <<lastCall, exercised>>

\* The step ran a handler that renders nothing and left the world w.
HandlerStep(w, event) ==
    /\ Commit(w)
    /\ lastFrame' = NoFrame
    /\ pending' = [pending EXCEPT !.events = @ \cup event, !.handlers = @ + 1]
    /\ UNCHANGED <<boundStale, lastCall, exercised>>

\* GalaxySimulator.mainLoop(): the limiter lets the frame through or not.
MainLoop(shouldRender) ==
    IF shouldRender
    THEN FrameStep("mainLoop", GalaxySimulator_immediateRender(World))
    ELSE UNCHANGED vars

SelectPreset(preset) ==
    /\ pending.handlers < MaxHandlers
    /\ FrameStep("selectPreset", GalaxySimulator_selectPreset(World, preset))

AccResize(width, height) ==
    /\ pending.handlers < MaxHandlers
    /\ HandlerStep(GalaxySimulator_resize(World, width, height),
                   IF canvas = [width |-> width, height |-> height]
                   THEN {} ELSE {"resize"})

SetTemporalAccumulation(value) ==
    /\ pending.handlers < MaxHandlers
    /\ HandlerStep(UIManager_updateKey(World, value),
                   IF snapToPowerOfTwo(value) = snapToPowerOfTwo(galaxy.temporalAccumulation)
                   THEN {} ELSE {"depth"})

SetTotalStarCount(val) ==
    /\ pending.handlers < MaxHandlers
    /\ HandlerStep(Galaxy_setTotalStarCount(World, val), {})

AccNext ==
    \/ \E shouldRender \in BOOLEAN : MainLoop(shouldRender)
    \/ \E count \in StarCounts \ {0} : SelectPreset([totalStarCount |-> count])
    \/ \E width \in Dims : AccResize(width, MaxDim)
    \/ \E value \in Depths : SetTemporalAccumulation(value)
    \/ \E val \in StarCounts : SetTotalStarCount(val)

SpecAccum == AccInit /\ [][AccNext]_vars

\* The layers rendered into since the layers were last cleared.
WrittenLayers == {gpu.written[k] : k \in 1..Len(gpu.written)}

\* The layers the weights buffer gives a non-zero weight.
WeightedLayers == {i \in Layers : gpu.weights[i] # 0}

\* C2: in every frame that was rendered and averaged, a layer that has not
\* been written since the last clear has weight zero.
C2_UnwrittenLayersWeighNothing ==
    lastFrame.rendered => WeightedLayers \subseteq WrittenLayers

\* C3: when the depth was 4 at the last rendered frame and is 16 at this one,
\* this frame's weights are non-zero on at most 4 layers, all of them written.
C3_FourToSixteenKeepsFourFrames ==
    (/\ lastFrame.rendered
     /\ lastFrame.depthBefore = 4
     /\ snapToPowerOfTwo(galaxy.temporalAccumulation) = 16)
        => /\ Cardinality(WeightedLayers) <= 4
           /\ WeightedLayers \subseteq WrittenLayers

\* C4: a forced clear leaves the write index at 0 and the frames-since-clear
\* counter at 0, and every frame averaged after it weights only layers
\* written after it.
C4_ForcedClearResets ==
    gpu.lastClear.forced =>
        /\ gpu.lastClear.accumWriteIndex = 0
        /\ gpu.lastClear.framesSinceBufferClear = 0
        /\ lastFrame.rendered => WeightedLayers \subseteq WrittenLayers

RECURSIVE SumUpTo(_, _)
\* f[0] + ... + f[i]
SumUpTo(f, i) == IF i < 0 THEN 0 ELSE f[i] + SumUpTo(f, i - 1)

\* The sum of the 16 weights in the weights buffer.
WeightSum == SumUpTo(gpu.weights, LayerCount - 1)

\* C6: in a rendered frame of effective depth N in {1, 2, 4, 8, 16}, when at
\* least N layers have been written since the last clear the 16 weights sum
\* to 16.
C6_WeightsSumToSixteen ==
    (/\ lastFrame.rendered
     /\ lastFrame.effective \in Depths
     /\ Len(gpu.written) >= lastFrame.effective)
        => WeightSum = LayerCount * WeightResolution

\* A frame of depth 16 was averaged over 16 written layers.
C6_Witness ==
    /\ lastFrame.rendered
    /\ lastFrame.effective = 16
    /\ Len(gpu.written) = 16
    /\ Cardinality(WeightedLayers) = 16

\* The n layers written most recently since the last clear.
MostRecentlyWritten(n) == {gpu.written[k] : k \in 1..Min(n, Len(gpu.written))}

\* C7: in every rendered frame, a layer with a non-zero weight is one of the
\* N layers written most recently, N being the configured depth.
C7_WeightsOnMostRecentLayers ==
    lastFrame.rendered =>
        WeightedLayers \subseteq
            MostRecentlyWritten(snapToPowerOfTwo(galaxy.temporalAccumulation))

\* C8: the first frame rendered after a canvas resize or a change of depth
\* finds all layers cleared and the write index and the frames-since-clear
\* counter reset: it writes layer 0, the only layer written since the clear,
\* and it is the only frame the counter has counted.
C8_ResizeAndDepthChangeClear ==
    (/\ lastFrame.rendered
     /\ lastFrame.after \cap {"resize", "depth"} # {})
        => /\ gpu.written = <<0>>
           /\ accumulationResources_accumWriteIndex(World) = 1
           /\ accumulator.framesSinceBufferClear <= 1

\* C9: the frame selectPreset renders comes after a forced clear of the
\* layers, and no rendered frame gives a non-zero weight to a layer that was
\* rendered before a preset switch and neither cleared nor overwritten since.
C9_PresetSwitchClears ==
    /\ (lastFrame.rendered /\ lastFrame.op = "selectPreset") =>
           /\ gpu.lastClear.forced
           /\ gpu.written = <<0>>
           /\ gpu.old = {}
    /\ lastFrame.rendered => WeightedLayers \cap gpu.old = {}

\* selectPreset rendered its frame after a frame had been rendered at depth 4.
C9_Witness ==
    /\ lastFrame.rendered
    /\ lastFrame.op = "selectPreset"
    /\ lastFrame.depthBefore = 4
    /\ lastFrame.effective = 1

\* ------------------------------------------------------------------------
\* Resources keyed on a size: the visible index buffer, the particle
\* storage buffer and the half-resolution bloom textures (lazy getters)
\* ------------------------------------------------------------------------

\* const particleDataStride = 48 (bytes per particle)
particleDataStride == 48

\* const minimalStride = 48 (the storage buffer setup() allocates)
minimalStride == 48

\* Math.floor(value / 2) of a canvas width or height
HalfResolution(value) == value \div 2

\* ParticleResources.createParticleStorageBuffer of the generation whose
\* buffer ParticleRenderer resizes: a buffer of minimalStride bytes.
ParticleResources_createMinimalStorageBuffer(w) ==
    Create(DestroyObj(w, w.particles.particleStorageBuffer),
           LAMBDA v, id : [v EXCEPT !.particles.particleStorageBuffer = id,
                                    !.particles.size = minimalStride])

\* An allocateEmptyBuffer that keeps whatever buffer there is.
ParticleRenderer_allocateEmptyBuffer_neverGrows(w, count) ==
    IF w.particles.particleStorageBuffer = Null
    THEN Create(w, LAMBDA v, id : [v EXCEPT !.particles.particleStorageBuffer = id,
                                            !.particles.size = count * particleDataStride])
    ELSE w

ParticleRenderer_allocateEmptyBuffer(w, count) ==
    IF \/ w.particles.particleStorageBuffer = Null
       \/ w.particles.size < count * particleDataStride
    THEN Create(DestroyObj(w, w.particles.particleStorageBuffer),
                LAMBDA v, id : [v EXCEPT !.particles.particleStorageBuffer = id,
                                         !.particles.size = count * particleDataStride])
    ELSE w

\* destroy() of either generation of ParticleResources
ParticleResources_destroy(w) ==
    [DestroyObj(w, w.particles.particleStorageBuffer)
        EXCEPT !.particles.particleStorageBuffer = Null]

\* createBloomTextures of the lazy generation; width and height are the
\* halved sizes.  Its bind groups are not part of this model.
LazyBloom_createBloomTextures(w, width, height) ==
    LET w1 == Create(DestroyObj(w, w.lazyBloom.bloomTexture1),
                     LAMBDA v, id : [v EXCEPT !.lazyBloom.bloomTexture1 = id,
                                              !.lazyBloom.bloomTextureView1 = id])
    IN  Create(DestroyObj(w1, w.lazyBloom.bloomTexture2),
               LAMBDA v, id : [v EXCEPT !.lazyBloom.bloomTexture2 = id,
                                        !.lazyBloom.bloomTextureView2 = id,
                                        !.lazyBloom.lastBloomTexturesDims =
                                            [width |-> width, height |-> height]])

LazyBloom_getBloomTextures(w, width, height) ==
    IF /\ HalfResolution(width) = w.lazyBloom.lastBloomTexturesDims.width
       /\ HalfResolution(height) = w.lazyBloom.lastBloomTexturesDims.height
       /\ w.lazyBloom.bloomTexture1 # Null
       /\ w.lazyBloom.bloomTexture2 # Null
       /\ w.lazyBloom.bloomTextureView1 # Null
       /\ w.lazyBloom.bloomTextureView2 # Null
    THEN w
    ELSE LazyBloom_createBloomTextures(w, HalfResolution(width), HalfResolution(height))

LazyBloom_destroy(w) ==
    [DestroyObj(DestroyObj(w, w.lazyBloom.bloomTexture1), w.lazyBloom.bloomTexture2)
        EXCEPT !.lazyBloom.bloomTexture1 = Null,
               !.lazyBloom.bloomTexture2 = Null,
               !.lazyBloom.bloomTextureView1 = Null,
               !.lazyBloom.bloomTextureView2 = Null]

\* size is undefined
Undefined == -1

\* ParticleResources of the generation that owns its storage buffer: the
\* previous buffer is destroyed once the submitted work is done.
ParticleResources_createParticleStorageBuffer(w, size) ==
    LET previousBuffer == w.particles.particleStorageBuffer
        wanted == IF size = Undefined
                  THEN w.particles.lastParticleStorageBufferSize ELSE size
        actualSize == IF wanted >= minimalStride THEN wanted ELSE minimalStride
    IN  Create(w, LAMBDA v, id :
            [v EXCEPT !.particles.particleStorageBuffer = id,
                      !.particles.size = actualSize,
                      !.particles.lastParticleStorageBufferSize = actualSize,
                      !.particles.previousBuffers = @ \cup ({previousBuffer} \ {Null})])

ParticleResources_getParticleStorageBuffer(w, size) ==
    IF \/ w.particles.particleStorageBuffer = Null
       \/ size # Undefined /\ w.particles.lastParticleStorageBufferSize # size
    THEN ParticleResources_createParticleStorageBuffer(w, size)
    ELSE w

\* queue.onSubmittedWorkDone().then(() => previousBuffer.destroy())
ParticleResources_destroyPreviousBuffer(w, previousBuffer) ==
    [DestroyObj(w, previousBuffer) EXCEPT !.particles.previousBuffers = @ \ {previousBuffer}]

\* The getters of the setup-style AccumulationResources:
\* this.<resource> ?? this.create<resource>(canvas.width, canvas.height)
AccumulationResources_get(w, resource) ==
    CASE resource = "accumTextureArray" ->
             Ensure(w, LAMBDA v : v.accum.accumTextureArray = Null,
                    LAMBDA v : AccumulationResources_createAccumTextureArray(
                                   v, v.canvas.width, v.canvas.height))
      [] resource = "accumLayerViews" ->
             Ensure(w, LAMBDA v : v.accum.accumLayerViews = Null,
                    LAMBDA v : AccumulationResources_createAccumLayerViews(
                                   v, v.canvas.width, v.canvas.height))
      [] resource = "accumArrayView" ->
             Ensure(w, LAMBDA v : v.accum.accumArrayView = Null,
                    LAMBDA v : AccumulationResources_createAccumArrayView(
                                   v, v.canvas.width, v.canvas.height))
      [] resource = "accumWeightsBuffer" ->
             Ensure(w, LAMBDA v : v.accum.accumWeightsBuffer = Null,
                    AccumulationResources_createAccumWeightsBuffer)
      [] resource = "accumAverageBindGroup" ->
             Ensure(w, LAMBDA v : v.accum.accumAverageBindGroup = {},
                    LAMBDA v : AccumulationResources_createAccumAverageBindGroup(
                                   v, v.canvas.width, v.canvas.height))

\* ------------------------------------------------------------------------
\* Specification of the owners of size-keyed resources: getters with
\* varying keys, setup() and destroy() in any order
\* ------------------------------------------------------------------------

\* The extent a buffer request needs: its size in bytes.
Bytes(size) == [width |-> size, height |-> 1]

\* A resource as a getter hands it out: the native objects it is or is
\* derived from, and the extent it was created with.
NoResource == [ids |-> {}, extent |-> NoDims]

NoRequest ==
    [op |-> "none", required |-> NoDims, before |-> NoResource,
     after |-> NoResource, created |-> {}, destroyed |-> {},
     afterDestroy |-> FALSE]

\* The getter op, asked for the extent required, left the world w;
\* Resource(world) is what the getter hands out in a world.
Request(op, required, w, Resource(_)) ==
    /\ w.heap.nextId <= MaxCachedObjects + 1
    /\ Commit(w)
    /\ lastCall' = [op |-> op, required |-> required,
                    before |-> Resource(World), after |-> Resource(w),
                    created |-> heap.nextId..(w.heap.nextId - 1),
                    destroyed |-> w.heap.destroyed \ heap.destroyed,
                    afterDestroy |-> lastCall.op = "destroy"]
    /\ UNCHANGED <<exercised, notCache>>

\* A step that hands out nothing: setup(), destroy(), a deferred destroy.
Step(op, w) ==
    /\ w.heap.nextId <= MaxCachedObjects + 1
    /\ Commit(w)
    /\ lastCall' = [NoRequest EXCEPT !.op = op]
    /\ UNCHANGED <<exercised, notCache>>

VisibleIndexBuffer(w) ==
    [ids |-> {w.vis.visibleIndexBuffer} \ {Null},
     extent |-> Bytes(w.vis.lastVisibleIndexBufferSize)]

ParticleStorageBuffer(w) ==
    [ids |-> {w.particles.particleStorageBuffer} \ {Null},
     extent |-> Bytes(w.particles.size)]

BloomTextures(w) ==
    [ids |-> {w.lazyBloom.bloomTexture1, w.lazyBloom.bloomTexture2,
              w.lazyBloom.bloomTextureView1, w.lazyBloom.bloomTextureView2} \ {Null},
     extent |-> w.lazyBloom.lastBloomTexturesDims]

OwnInit ==
    /\ Start(FreshWorld(MaxDim, MaxDim))
    /\ boundStale = {}
    /\ lastCall = NoRequest
    /\ exercised \in {"VisibilityResources", "ParticleRenderer", "BloomResources",
                      "AccumulationResources", "ParticleResources"}
    /\ lastFrame = NoFrame
    /\ pending = NothingPending

OwnGetVisibleIndexBuffer(maxParticles) ==
    /\ exercised = "VisibilityResources"
    /\ Request("getVisibleIndexBuffer", Bytes(16 + maxParticles * 4),
               VisibilityResources_getVisibleIndexBuffer(World, maxParticles),
               VisibleIndexBuffer)

OwnGetIndirectDrawBuffer ==
    /\ exercised = "VisibilityResources"
    /\ Request("getIndirectDrawBuffer", NoDims,
               VisibilityResources_getIndirectDrawBuffer(World),
               LAMBDA v : [ids |-> {v.vis.indirectDrawBuffer} \ {Null},
                           extent |-> NoDims])

OwnGetPrepareIndirectBindGroup(maxParticles) ==
    /\ exercised = "VisibilityResources"
    /\ Request("getPrepareIndirectBindGroup", NoDims,
               VisibilityResources_getPrepareIndirectBindGroup(World, maxParticles),
               LAMBDA v : [ids |-> v.vis.prepareIndirectBindGroup, extent |-> NoDims])

OwnDestroyVisibility ==
    /\ exercised = "VisibilityResources"
    /\ Step("destroy", VisibilityResources_destroy(World))

\* ParticleResources.setup(): if (!this.particleStorageBuffer) create
OwnSetupParticles ==
    /\ exercised = "ParticleRenderer"
    /\ Step("setup", Ensure(World, LAMBDA v : v.particles.particleStorageBuffer = Null,
                            ParticleResources_createMinimalStorageBuffer))

OwnAllocateEmptyBuffer(count) ==
    /\ exercised = "ParticleRenderer"
    /\ Request("allocateEmptyBuffer", Bytes(count * particleDataStride),
               ParticleRenderer_allocateEmptyBuffer(World, count),
               ParticleStorageBuffer)

OwnDestroyParticles ==
    /\ exercised \in {"ParticleRenderer", "ParticleResources"}
    /\ Step("destroy", ParticleResources_destroy(World))

OwnGetBloomTextures(width, height) ==
    /\ exercised = "BloomResources"
    /\ Request("getBloomTextures",
               [width |-> HalfResolution(width), height |-> HalfResolution(height)],
               LazyBloom_getBloomTextures(World, width, height),
               BloomTextures)

OwnDestroyBloom ==
    /\ exercised = "BloomResources"
    /\ Step("destroy", LazyBloom_destroy(World))

\* The canvas takes the size (width, height) and setup() runs.
OwnSetupAccumulation(width, height) ==
    /\ exercised = "AccumulationResources"
    /\ Step("setup", AccumulationResources_setup(
                         [World EXCEPT !.canvas = [width |-> width, height |-> height]]))

OwnGetAccumulation(resource) ==
    /\ exercised = "AccumulationResources"
    /\ Request(resource, NoDims, AccumulationResources_get(World, resource),
               LAMBDA v : [ids |-> IF resource = "accumAverageBindGroup"
                                   THEN v.accum.accumAverageBindGroup
                                   ELSE {v.accum[resource]} \ {Null},
                           extent |-> NoDims])

OwnDestroyAccumulation ==
    /\ exercised = "AccumulationResources"
    /\ Step("destroy", AccumulationResources_destroy(World))

OwnGetParticleStorageBuffer(size) ==
    /\ exercised = "ParticleResources"
    /\ Request("getParticleStorageBuffer",
               IF size = Undefined THEN NoDims ELSE Bytes(size),
               ParticleResources_getParticleStorageBuffer(World, size),
               ParticleStorageBuffer)

OwnSubmittedWorkDone(previousBuffer) ==
    /\ exercised = "ParticleResources"
    /\ previousBuffer \in particles.previousBuffers
    /\ Step("onSubmittedWorkDone",
            ParticleResources_destroyPreviousBuffer(World, previousBuffer))

\* Canvas sizes whose halves differ
BloomDims == 2..(MaxDim + 2)

OwnNext ==
    \/ \E maxParticles \in 1..MaxParticles : OwnGetVisibleIndexBuffer(maxParticles)
    \/ OwnGetIndirectDrawBuffer
    \/ \E maxParticles \in 1..MaxParticles : OwnGetPrepareIndirectBindGroup(maxParticles)
    \/ OwnDestroyVisibility
    \/ OwnSetupParticles
    \/ \E count \in 1..MaxParticles : OwnAllocateEmptyBuffer(count)
    \/ OwnDestroyParticles
    \/ \E width \in BloomDims, height \in BloomDims : OwnGetBloomTextures(width, height)
    \/ OwnDestroyBloom
    \/ \E width \in Dims, height \in Dims : OwnSetupAccumulation(width, height)
    \/ \E resource \in {"accumTextureArray", "accumLayerViews", "accumArrayView",
                        "accumWeightsBuffer", "accumAverageBindGroup"} :
           OwnGetAccumulation(resource)
    \/ OwnDestroyAccumulation
    \/ \E size \in {Undefined} \cup {count * particleDataStride : count \in 0..MaxParticles} :
           OwnGetParticleStorageBuffer(size)
    \/ \E previousBuffer \in 1..MaxCachedObjects : OwnSubmittedWorkDone(previousBuffer)

SpecOwners == OwnInit /\ [][OwnNext]_vars

\* The getters that take the key of their resource as an argument.
KeyedRequests == {"getVisibleIndexBuffer", "allocateEmptyBuffer", "getBloomTextures"}

\* The last call replaced the resource by a new one.
Recreated == lastCall.created # {}

\* The statement of C11 as the specification words it: the resource a keyed
\* request hands out was created for exactly the requested key, and a
\* cached resource created for another key is destroyed and replaced.
C11_MismatchAlwaysRecreates ==
    lastCall.op \in KeyedRequests =>
        /\ lastCall.after.extent = lastCall.required
        /\ (lastCall.before.ids # {} /\ lastCall.before.extent # lastCall.required)
               => /\ lastCall.before.ids \subseteq lastCall.destroyed
                  /\ lastCall.after.ids \cap lastCall.before.ids = {}

\* C11: the bloom textures are valid exactly while the halved size they were
\* created for equals the halved size requested, and any mismatch destroys and
\* recreates them; a buffer sized by a particle count (visible index buffer,
\* particle storage buffer) is valid while it is at least as large as the
\* request needs: it is destroyed and recreated exactly when it is missing or
\* too small, so a buffer is never handed out smaller than the request needs
\* and a replaced resource is a new object, the old one being destroyed.
C11_RecreatedOnMismatchOrWhenTooSmall ==
    /\ lastCall.op = "getBloomTextures" =>
           /\ lastCall.after.extent = lastCall.required
           /\ Recreated <=> \/ lastCall.before.ids = {}
                            \/ lastCall.before.extent # lastCall.required
    /\ lastCall.op \in {"getVisibleIndexBuffer", "allocateEmptyBuffer"} =>
           /\ lastCall.after.extent.width >= lastCall.required.width
           /\ Recreated <=> \/ lastCall.before.ids = {}
                            \/ lastCall.before.extent.width < lastCall.required.width
           /\ Recreated => lastCall.after.extent = lastCall.required
    /\ lastCall.op \in KeyedRequests =>
           /\ lastCall.after.ids # {}
           /\ lastCall.after.ids \cap heap.destroyed = {}
           /\ IF Recreated
              THEN /\ lastCall.before.ids \subseteq lastCall.destroyed
                   /\ lastCall.after.ids \subseteq lastCall.created
              ELSE /\ lastCall.after = lastCall.before
                   /\ lastCall.destroyed = {}

\* A request for fewer particles than the cached buffer was created for is
\* served from the cache.
C11_Witness ==
    /\ lastCall.op \in {"getVisibleIndexBuffer", "allocateEmptyBuffer"}
    /\ lastCall.before.ids # {}
    /\ lastCall.before.extent.width > lastCall.required.width
    /\ lastCall.after = lastCall.before

\* The native objects the owners hold in their fields.
Held ==
    {vis.visibleIndexBuffer, vis.indirectDrawBuffer,
     particles.particleStorageBuffer,
     lazyBloom.bloomTexture1, lazyBloom.bloomTexture2,
     accum.accumTextureArray, accum.accumWeightsBuffer} \ {Null}

\* C12: a replaced native object is destroyed exactly once: every object
\* that is no longer held is destroyed (or its destroy waits for the submitted
\* work to be done), and destroy() is never called on an object a second
\* time, whatever resizes, recreations and destroy() calls came before.
C12_ReplacedDestroyedExactlyOnce ==
    /\ heap.again = {}
    /\ (1..(heap.nextId - 1)) \ Held \subseteq heap.destroyed \cup particles.previousBuffers

\* C13: the first get after an owner's destroy() hands out a freshly
\* created live object: every native object it is or is derived from was
\* created by that call and is not destroyed.
C13_GetAfterDestroyIsFresh ==
    lastCall.afterDestroy =>
        /\ lastCall.after.ids # {}
        /\ lastCall.after.ids \subseteq lastCall.created
        /\ lastCall.after.ids \cap heap.destroyed = {}

\* ------------------------------------------------------------------------
\* Construction of the simulator: the accessors its objects take to each
\* other, called while the constructor is still running
\* ------------------------------------------------------------------------

RECURSIVE Position(_, _)
\* The place of a field among the first n fields of ConstructionOrder
\* (0: not among them).
Position(field, n) ==
    IF n = 0 THEN 0
    ELSE IF ConstructionOrder[n] = field THEN n
    ELSE Position(field, n - 1)

\* simulator.<field> has been assigned.
Assigned(sim, field) == Position(field, sim.assigned) # 0

\* The object that will be simulator.<field> exists: the field is assigned
\* or the constructor of its class is running.
Exists(sim, field) ==
    \/ Assigned(sim, field)
    \/ sim.inside /\ Position(field, sim.assigned + 1) = sim.assigned + 1

\* The accessors that test the field and throw
\* new Error("<field> must be initialized before <class>"), by the field
\* holding the object that has the accessor.
GuardedAccessors ==
    [resources |-> {"galaxy", "particleRenderer", "performanceProfiler", "accumulator"},
     particleRenderer |-> {"camera", "galaxy", "resources"}]

\* The accessors of the resource classes (created by the constructor of
\* ResourceManager) that return simulator.<field> untested.
UntestedAccessors == {"galaxy", "accumulator", "resources"}

\* this.<field>() of the object held by simulator.<by>
GuardedAccessor(sim, by, field) ==
    IF Assigned(sim, field) THEN "value" ELSE "Error"

\* this.<field>().<member> in a resource class: undefined has no members.
UntestedAccessor(sim, field) ==
    IF Assigned(sim, field) THEN "value" ELSE "TypeError"

\* BloomResources.createBloomTextures: try { this.resources().toneMapResources
\* .markBloomTexturesDirty() } catch (error) { console.warn(...) }
BloomResources_notifyToneMap(sim) ==
    IF UntestedAccessor(sim, "resources") = "TypeError" THEN "skipped" ELSE "value"

\* GalaxySimulator.updateUniformData (first simulator)
GalaxySimulator_updateUniformData(sim) ==
    IF ~Assigned(sim, "resources") THEN "skipped"
    ELSE IF GuardedAccessor(sim, "particleRenderer", "resources") = "Error" THEN "Error"
    ELSE IF ~Assigned(sim, "particles") THEN "skipped"
    ELSE "value"

\* onUniformDataChanged: this.accumulator.requestFullRenderNextFrame();
\* this.updateUniformData()
GalaxyCallbacks_onUniformDataChanged(sim) ==
    IF ~Assigned(sim, "accumulator") THEN "TypeError"
    ELSE GalaxySimulator_updateUniformData(sim)

\* ParticleResources.setup() leaves the bind group of the current overdraw
\* mode created and the other one null.
ParticleResources_setupBindGroups(overdrawDisabled) ==
    [particleBindGroup |-> ~overdrawDisabled,
     particleBindGroupNoOverdraw |-> overdrawDisabled]

\* ParticleRenderer.render: "skipped" is the return after
\* console.warn("Particle bind group not ready").
ParticleRenderer_render(sim, overdrawDisabled) ==
    IF GuardedAccessor(sim, "particleRenderer", "resources") = "Error" THEN "Error"
    ELSE LET particleResources == ParticleResources_setupBindGroups(overdrawDisabled)
             bg == IF overdrawDisabled
                   THEN particleResources.particleBindGroupNoOverdraw
                   ELSE particleResources.particleBindGroup
         IN  IF ~bg THEN "skipped" ELSE "value"

NoAccess == [op |-> "none", by |-> "none", needs |-> {}, outcome |-> "none"]

\* by accessed the fields in needs with the given outcome.
Accessed(by, needs, outcome) ==
    /\ lastCall' = [op |-> "access", by |-> by, needs |-> needs, outcome |-> outcome]
    /\ UNCHANGED <<canvas, heap, hdr, bloom, tone, vis, lazyHdr, msaa, denoise,
                   build, galaxy, accumulator, accum, lazyAccum, particles,
                   lazyBloom, simulator, cull,
          device,
          profiler,
          settings,
          camera,
          temporalDenoise,
          overdraw,
          fps,
          presets,
          gpu, boundStale, exercised, lastFrame,
                   pending>>

ConInit ==
    /\ Start([FreshWorld(MaxDim, MaxDim) EXCEPT
                  !.simulator = [assigned |-> 0, inside |-> FALSE]])
    /\ boundStale = {}
    /\ lastCall = NoAccess
    /\ exercised = "none"
    /\ lastFrame = NoFrame
    /\ pending = NothingPending

\* The constructor of the next field's class starts, or returns and the
\* field is assigned.
Construct ==
    /\ simulator.assigned < Len(ConstructionOrder)
    /\ Commit([World EXCEPT !.simulator =
                   IF simulator.inside
                   THEN [assigned |-> simulator.assigned + 1, inside |-> FALSE]
                   ELSE [simulator EXCEPT !.inside = TRUE]])
    /\ lastCall' = NoAccess
    /\ UNCHANGED <<exercised, notCache>>

CallGuardedAccessor(by, field) ==
    /\ Exists(simulator, by)
    /\ field \in GuardedAccessors[by]
    /\ Accessed(by, {field}, GuardedAccessor(simulator, by, field))

CallUntestedAccessor(field) ==
    /\ Exists(simulator, "resources")
    /\ field \in UntestedAccessors
    /\ Accessed("AccumulationResources", {field}, UntestedAccessor(simulator, field))

CallCreateBloomTextures ==
    /\ Exists(simulator, "resources")
    /\ Accessed("BloomResources", {"resources"}, BloomResources_notifyToneMap(simulator))

CallOnUniformDataChanged ==
    /\ Exists(simulator, "galaxy")
    /\ Accessed("GalaxySimulator", {"accumulator", "resources", "particles"},
                GalaxyCallbacks_onUniformDataChanged(simulator))

CallRender(overdrawDisabled) ==
    /\ Exists(simulator, "particleRenderer")
    /\ Accessed("ParticleRenderer.render", {"resources"},
                ParticleRenderer_render(simulator, overdrawDisabled))

ConNext ==
    \/ Construct
    \/ \E by \in DOMAIN GuardedAccessors, field \in {ConstructionOrder[i] : i \in DOMAIN ConstructionOrder} :
           CallGuardedAccessor(by, field)
    \/ \E field \in UntestedAccessors : CallUntestedAccessor(field)
    \/ CallCreateBloomTextures
    \/ CallOnUniformDataChanged
    \/ \E overdrawDisabled \in BOOLEAN : CallRender(overdrawDisabled)

SpecConstruction == ConInit /\ [][ConNext]_vars

RenderResourcesPresent ==
    build.classes = "setup" => accum.accumTextureArray # Null /\ accum.accumLayerViews # Null

\* C15: when a resource render() needs is missing or the particle count is
\* zero, render() returns false at once: nothing is submitted, the contents
\* of the GPU, the write index and the weights stay as they were and the
\* frame count is not incremented; nothing is retried, and the next attempt is judged on its own, so
\* it renders as soon as the resources and the particles are there.
C15_FailedRenderLeavesNoTrace ==
    lastFrame.op # "none" =>
        /\ lastFrame.rendered = (RenderResourcesPresent /\ galaxy.totalStarCount # 0)
        /\ ~lastFrame.rendered =>
               /\ ~lastFrame.submitted
               /\ lastFrame.untouched
               /\ lastFrame.frameCount = 0
        /\ lastFrame.rendered => lastFrame.submitted /\ lastFrame.frameCount = 1

\* A frame attempt failed for want of particles.
C15_Witness ==
    /\ lastFrame.op # "none"
    /\ ~lastFrame.rendered
    /\ galaxy.totalStarCount = 0

\* A frame rendered right after a failed attempt.
C15_WitnessNext ==
    /\ lastFrame.rendered
    /\ lastFrame.afterFailure

\* ------------------------------------------------------------------------
\* Visibility culling: the shader visibility-cull.comp.wgsl
\* ------------------------------------------------------------------------

abs(x) == IF x < 0 THEN -x ELSE x

\* a / b for b > 0 in steps of 1 / NdcResolution
Quotient(a, b) ==
    IF a < 0 THEN -(((-a) * NdcResolution) \div b) ELSE (a * NdcResolution) \div b

\* 0.05
baseMargin == NdcResolution \div 20

\* isVisible() without the test for a particle behind the camera.
isVisible_ignoresW(clipPos, worldSize) ==
    LET w == IF clipPos.w <= 0 THEN NdcResolution ELSE clipPos.w
        ndcRadius == Quotient(worldSize, w)
        margin == baseMargin + ndcRadius
        threshold == NdcResolution + margin
    IN  /\ abs(Quotient(clipPos.x, w)) <= threshold
        /\ abs(Quotient(clipPos.y, w)) <= threshold

isVisible(clipPos, worldSize) ==
    IF clipPos.w <= 0
    THEN FALSE
    ELSE LET ndcRadius == Quotient(worldSize, clipPos.w)
             margin == baseMargin + ndcRadius
             threshold == NdcResolution + margin
         IN  /\ abs(Quotient(clipPos.x, clipPos.w)) <= threshold
             /\ abs(Quotient(clipPos.y, clipPos.w)) <= threshold

\* The contents of the visible buffer with the given id.
ContentsOf(d, buffer) ==
    IF buffer \in DOMAIN d.visible THEN d.visible[buffer] ELSE ZeroBuffer

\* indices[idx] = id; a write past the end of the array is discarded.
StoreIndex(indices, capacity, idx, id) ==
    IF idx >= capacity
    THEN indices
    ELSE [k \in 1..(IF idx + 1 > Len(indices) THEN idx + 1 ELSE Len(indices)) |->
             IF k = idx + 1 THEN id
             ELSE IF k <= Len(indices) THEN indices[k] ELSE 0]

\* particles.particles[id]: a read past the end of the buffer gives zeros.
ParticleAt(d, id) ==
    IF id \in DOMAIN d.scene THEN d.scene[id] ELSE Placement(0, 0, 0, 0)

\* The first test of main() letting the invocation after the last particle
\* through.
ReturnsAtOnce_offByOne(d, id) == id > d.totalStarCount

\* if (id >= cull.totalStarCount) { return; }
ReturnsAtOnce(d, id) == id >= d.totalStarCount

\* main() of the invocation id on device d, the visible buffer of the bind
\* group being the given one of the given size in bytes.
main(d, buffer, size, id) ==
    IF ReturnsAtOnce(d, id)
    THEN d
    ELSE IF isVisible(ParticleAt(d, id).clipPos, ParticleAt(d, id).worldSize)
         THEN [d EXCEPT !.visible =
                  (buffer :> [count |-> ContentsOf(d, buffer).count + 1,
                              indices |-> StoreIndex(ContentsOf(d, buffer).indices,
                                                     (size - 16) \div 4,
                                                     ContentsOf(d, buffer).count, id)])
                  @@ @]
         ELSE d

\* ------------------------------------------------------------------------
\* The device queue as the culling frame uses it
\* ------------------------------------------------------------------------

\* A queued command.  writeBuffer carries the uniforms, clearBuffer and
\* copyBufferToBuffer the visible buffer, dispatchWorkgroups the visible buffer
\* of its bind group, that buffer's size and the number of workgroups; done
\* holds the invocations that have run and appended those of them that
\* added to the atomic count.
Command(op, buffer, size, groups, totalStarCount, scene) ==
    [op |-> op, buffer |-> buffer, size |-> size, groups |-> groups,
     totalStarCount |-> totalStarCount, scene |-> scene, done |-> {},
     appended |-> {}]

NoScene == [id \in ParticleIds |-> Placement(0, 0, 0, 0)]

\* commandEncoder.<op>(...)
Encode(w, op, buffer, size, groups) ==
    [w EXCEPT !.device.encoder = Append(@, Command(op, buffer, size, groups, 0, NoScene))]

\* device.queue.submit([commandEncoder.finish()])
GPUQueue_submit(w) ==
    [w EXCEPT !.device.queue = @ \o w.device.encoder, !.device.encoder = <<>>]

\* The visible buffers whose contents can still be read or written: the
\* current one and those a queued command names.
Reachable(w, queue) ==
    {w.vis.visibleIndexBuffer} \cup {queue[k].buffer : k \in DOMAIN queue}

\* The command at the head of the queue has been executed; the contents of
\* a buffer nothing refers to any more are forgotten.
GPUQueue_retire(w) ==
    [w EXCEPT !.device.queue = Tail(@),
              !.device.waitFor = IF @ > 0 THEN @ - 1 ELSE 0,
              !.device.visible = [b \in DOMAIN @ \cap Reachable(w, Tail(w.device.queue))
                                     |-> @[b]]]

GPUQueue_writeBuffer(w) ==
    GPUQueue_retire([w EXCEPT !.device.totalStarCount = Head(w.device.queue).totalStarCount,
                              !.device.scene = Head(w.device.queue).scene])

\* clearBuffer(buffer, 0, 4)
GPUQueue_clearBuffer(w) ==
    GPUQueue_retire(
        [w EXCEPT !.device.visible =
            (Head(w.device.queue).buffer :>
                [ContentsOf(w.device, Head(w.device.queue).buffer) EXCEPT !.count = 0]) @@ @])

\* copyBufferToBuffer(visibleBuffer, 0, readbackBuffer, 0, 4)
GPUQueue_copyBufferToBuffer(w) ==
    GPUQueue_retire(
        [w EXCEPT !.device.readback = ContentsOf(w.device, Head(w.device.queue).buffer).count])

workgroupSize == 256

\* The invocations of a dispatch that have not run and do not return at once.
PendingInvocations(d, command) ==
    {id \in 0..(command.groups * workgroupSize - 1) :
        id \notin command.done /\ ~ReturnsAtOnce(d, id)}

\* One invocation of the dispatch at the head of the queue runs main().
GPUQueue_invoke(w, id) ==
    Then([w EXCEPT !.device = main(@, Head(w.device.queue).buffer,
                                   Head(w.device.queue).size, id)],
         LAMBDA v :
            [v EXCEPT !.device.queue[1].done = @ \cup {id},
                      !.device.queue[1].appended =
                          IF ContentsOf(v.device, Head(v.device.queue).buffer).count
                                 > ContentsOf(w.device, Head(w.device.queue).buffer).count
                          THEN @ \cup {id} ELSE @])

\* ------------------------------------------------------------------------
\* VisibilityResources: the readback of the visible count
\* ------------------------------------------------------------------------

VisibilityResources_createCountReadbackBuffer(w) ==
    Create(DestroyObj(w, w.vis.countReadbackBuffer),
           LAMBDA v, id : [v EXCEPT !.vis.countReadbackBuffer = id])

VisibilityResources_getCountReadbackBuffer(w) ==
    Ensure(w, LAMBDA v : v.vis.countReadbackBuffer = Null,
           VisibilityResources_createCountReadbackBuffer)

VisibilityResources_clearVisibleCount(w, maxParticles) ==
    Then(VisibilityResources_getVisibleIndexBuffer(w, maxParticles),
         LAMBDA v : Encode(v, "clearBuffer", v.vis.visibleIndexBuffer,
                           v.vis.lastVisibleIndexBufferSize, 0))

\* copyVisibleCountForReadback() recording the copy whatever the map state.
VisibilityResources_copyVisibleCountForReadback_always(w, maxParticles) ==
    Then(VisibilityResources_getCountReadbackBuffer(
             VisibilityResources_getVisibleIndexBuffer(w, maxParticles)),
         LAMBDA v : Encode(v, "copyBufferToBuffer", v.vis.visibleIndexBuffer,
                           v.vis.lastVisibleIndexBufferSize, 0))

VisibilityResources_copyVisibleCountForReadback(w, maxParticles) ==
    Then(VisibilityResources_getCountReadbackBuffer(
             VisibilityResources_getVisibleIndexBuffer(w, maxParticles)),
         LAMBDA v : IF v.device.mapState = "unmapped"
                    THEN Encode(v, "copyBufferToBuffer", v.vis.visibleIndexBuffer,
                                v.vis.lastVisibleIndexBufferSize, 0)
                    ELSE v)

\* buffer.mapAsync(GPUMapMode.READ): rejected at once unless the buffer is
\* unmapped; otherwise pending until the work queued so far is done.
GPUBuffer_mapAsync(w) ==
    IF w.device.mapState # "unmapped"
    THEN [world |-> w, promise |-> "rejected"]
    ELSE [world |-> [w EXCEPT !.device.mapState = "pending",
                              !.device.waitFor = Len(w.device.queue)],
          promise |-> "pending"]

\* What a call of readVisibleCount() has come to when it gives up control:
\* "returned" with the value its promise resolved to, "awaiting" the map, or
\* "thrown" (its promise rejected).
ReadOutcome(m) ==
    IF m.promise = "rejected"
    THEN [world |-> m.world, outcome |-> "returned",
          value |-> m.world.vis.lastVisibleCount]
    ELSE [world |-> m.world, outcome |-> "awaiting", value |-> 0]

\* readVisibleCount() up to its await, without the try / catch.
VisibilityResources_readVisibleCount_noCatch(w) ==
    Then(GPUBuffer_mapAsync(VisibilityResources_getCountReadbackBuffer(w)),
         LAMBDA m : IF m.promise = "rejected"
                    THEN [world |-> m.world, outcome |-> "thrown", value |-> 0]
                    ELSE ReadOutcome(m))

\* readVisibleCount() up to its await.
VisibilityResources_readVisibleCount(w) ==
    ReadOutcome(GPUBuffer_mapAsync(VisibilityResources_getCountReadbackBuffer(w)))

\* readVisibleCount() after its await: the mapped range is read, the buffer
\* unmapped and the cached count returned.
VisibilityResources_readMappedCount(w) ==
    [w EXCEPT !.vis.lastVisibleCount = w.device.readback,
              !.device.mapState = "unmapped"]

\* ------------------------------------------------------------------------
\* VisibilityCullCompute
\* ------------------------------------------------------------------------

\* updateUniforms(): the scene stands for what the camera matrices, the time
\* and the particle data of this frame make of every particle.
VisibilityCullCompute_updateUniforms(w, scene) ==
    [w EXCEPT !.device.queue =
        Append(@, Command("writeBuffer", Null, 0, 0, w.galaxy.totalStarCount, scene))]

VisibilityCullCompute_createComputeBindGroup(w, particleCount) ==
    Then(VisibilityResources_getVisibleIndexBuffer(
             ParticleResources_getParticleStorageBuffer(w, Undefined), particleCount),
         LAMBDA v : [v EXCEPT !.cull.computeBindGroup =
                                  [particles |-> v.particles.particleStorageBuffer,
                                   visible |-> v.vis.visibleIndexBuffer,
                                   size |-> v.vis.lastVisibleIndexBufferSize],
                              !.cull.lastParticleCount = particleCount,
                              !.cull.lastParticleStorageBuffer =
                                  v.particles.particleStorageBuffer])

VisibilityCullCompute_getComputeBindGroup(w, particleCount) ==
    Ensure(ParticleResources_getParticleStorageBuffer(w, Undefined),
           LAMBDA v : \/ v.cull.computeBindGroup = NoCullBindGroup
                      \/ v.cull.lastParticleCount # particleCount
                      \/ v.cull.lastParticleStorageBuffer # v.particles.particleStorageBuffer,
           LAMBDA v : VisibilityCullCompute_createComputeBindGroup(v, particleCount))

\* dispatch() without the clear of the visible count.
VisibilityCullCompute_dispatch_noClear(w, scene) ==
    Then(VisibilityCullCompute_getComputeBindGroup(
             VisibilityCullCompute_updateUniforms(w, scene), w.galaxy.totalStarCount),
         LAMBDA v : VisibilityResources_copyVisibleCountForReadback(
                        Encode(v, "dispatchWorkgroups", v.cull.computeBindGroup.visible,
                               v.cull.computeBindGroup.size,
                               (v.galaxy.totalStarCount + workgroupSize - 1) \div workgroupSize),
                        v.galaxy.totalStarCount))

VisibilityCullCompute_dispatch(w, scene) ==
    Then(VisibilityCullCompute_getComputeBindGroup(
             VisibilityResources_clearVisibleCount(
                 VisibilityCullCompute_updateUniforms(w, scene), w.galaxy.totalStarCount),
             w.galaxy.totalStarCount),
         LAMBDA v : VisibilityResources_copyVisibleCountForReadback(
                        Encode(v, "dispatchWorkgroups", v.cull.computeBindGroup.visible,
                               v.cull.computeBindGroup.size,
                               (v.galaxy.totalStarCount + workgroupSize - 1) \div workgroupSize),
                        v.galaxy.totalStarCount))

\* ------------------------------------------------------------------------
\* Specification of the culling frames and the readback of the visible count
\* ------------------------------------------------------------------------

\* Nothing has happened yet.  busy: the readback buffer was not unmapped
\* when the operation began; copied: the frame recorded the copy into it;
\* cached: the cached count before the operation; outcome and returned: what
\* readVisibleCount() came to; count, listed, stale (the indices stored past
\* the count), total, scene, ran and appended: the visible buffer, the
\* uniforms and the invocations of a finished pass.
NoPass ==
    [op |-> "none", busy |-> FALSE, copied |-> FALSE, submitted |-> FALSE,
     cached |-> 0, outcome |-> "none", returned |-> 0,
     count |-> 0, listed |-> <<>>, stale |-> <<>>, total |-> 0, scene |-> NoScene,
     ran |-> {}, appended |-> {}]

\* Where a particle can be: in the middle of the view; on the left edge of
\* the extended viewport, at twice the distance; beyond the upper edge but
\* large enough to reach into it; at the same place and too small for that;
\* behind the camera.
Placements ==
    {Placement(0, 0, NdcResolution, 0),
     Placement(-2 * (NdcResolution + baseMargin), 0, 2 * NdcResolution, 0),
     Placement(0, NdcResolution + baseMargin + 1, NdcResolution, 1),
     Placement(0, NdcResolution + baseMargin + 1, NdcResolution, 0),
     Placement(0, 0, -NdcResolution, 0)}

Scenes == [ParticleIds -> Placements]

CullInit ==
    /\ Start(FreshWorld(MaxDim, MaxDim))
    /\ boundStale = {}
    /\ lastCall = NoPass
    /\ exercised = "VisibilityCullCompute"
    /\ lastFrame = NoFrame
    /\ pending = NothingPending

\* The step left the world w and the record call of what it did.
Pass(w, call) ==
    /\ Commit(w)
    /\ lastCall' = call
    /\ UNCHANGED <<exercised, notCache>>

Copies(queue) == Len(SelectSeq(queue, LAMBDA c : c.op = "copyBufferToBuffer"))

Dispatches(queue) == Len(SelectSeq(queue, LAMBDA c : c.op = "dispatchWorkgroups"))

\* A setter of the galaxy changes the particle count.
CullSetTotalStarCount(val) ==
    /\ val # galaxy.totalStarCount
    /\ Pass(Galaxy_setTotalStarCount(World, val), [NoPass EXCEPT !.op = "setTotalStarCount"])

\* One frame: dispatch() records the pass and the encoder is submitted.
CullFrame(scene) ==
    /\ Len(device.queue) <= MaxQueued
    /\ Then(GPUQueue_submit(VisibilityCullCompute_dispatch(World, scene)),
            LAMBDA w : Pass(w, [NoPass EXCEPT
                                   !.op = "frame",
                                   !.busy = device.mapState # "unmapped",
                                   !.copied = Copies(w.device.queue) > Copies(device.queue),
                                   !.submitted = Dispatches(w.device.queue)
                                                     > Dispatches(device.queue),
                                   !.cached = vis.lastVisibleCount]))

\* The display asks for the visible count.
CullReadVisibleCount ==
    Then(VisibilityResources_readVisibleCount(World),
         LAMBDA r : Pass(r.world, [NoPass EXCEPT
                                      !.op = "readVisibleCount",
                                      !.busy = device.mapState # "unmapped",
                                      !.cached = vis.lastVisibleCount,
                                      !.outcome = r.outcome,
                                      !.returned = r.value]))

\* The map a call of readVisibleCount() awaits is granted.
CullMapResolved ==
    /\ device.mapState = "pending"
    /\ device.waitFor = 0
    /\ Pass(VisibilityResources_readMappedCount(World),
            [NoPass EXCEPT !.op = "mapResolved", !.cached = vis.lastVisibleCount,
                           !.outcome = "returned", !.returned = device.readback])

\* The device executes the command at the head of its queue.
CullExecute ==
    /\ device.queue # <<>>
    /\ \/ /\ Head(device.queue).op = "writeBuffer"
          /\ Pass(GPUQueue_writeBuffer(World), [NoPass EXCEPT !.op = "writeBuffer"])
       \/ /\ Head(device.queue).op = "clearBuffer"
          /\ Pass(GPUQueue_clearBuffer(World), [NoPass EXCEPT !.op = "clearBuffer"])
       \/ /\ Head(device.queue).op = "copyBufferToBuffer"
          /\ Pass(GPUQueue_copyBufferToBuffer(World),
                  [NoPass EXCEPT !.op = "copyBufferToBuffer"])

\* What the pass at the head of the queue of w leaves when it ends.
CullDone(w) ==
    [NoPass EXCEPT
        !.op = "cullDone",
        !.count = ContentsOf(w.device, Head(w.device.queue).buffer).count,
        !.listed = SubSeq(ContentsOf(w.device, Head(w.device.queue).buffer).indices, 1,
                          Min(ContentsOf(w.device, Head(w.device.queue).buffer).count,
                              Len(ContentsOf(w.device, Head(w.device.queue).buffer).indices))),
        !.total = w.device.totalStarCount,
        !.scene = w.device.scene,
        !.stale = SubSeq(ContentsOf(w.device, Head(w.device.queue).buffer).indices,
                         ContentsOf(w.device, Head(w.device.queue).buffer).count + 1,
                         Len(ContentsOf(w.device, Head(w.device.queue).buffer).indices)),
        !.ran = Head(w.device.queue).done,
        !.appended = Head(w.device.queue).appended]

\* One more invocation of the pass at the head of the queue runs; the pass
\* ends with the last one.
CullInvoke(id) ==
    /\ device.queue # <<>>
    /\ Head(device.queue).op = "dispatchWorkgroups"
    /\ id \in PendingInvocations(device, Head(device.queue))
    /\ Then(GPUQueue_invoke(World, id),
            LAMBDA w : IF PendingInvocations(w.device, Head(w.device.queue)) = {}
                       THEN Pass(GPUQueue_retire(w), CullDone(w))
                       ELSE Pass(w, [NoPass EXCEPT !.op = "invocation"]))

\* A pass none of whose invocations gets past the test of its id.
CullEmptyDispatch ==
    /\ device.queue # <<>>
    /\ Head(device.queue).op = "dispatchWorkgroups"
    /\ Head(device.queue).done = {}
    /\ PendingInvocations(device, Head(device.queue)) = {}
    /\ Pass(GPUQueue_retire(World), CullDone(World))

\* The culling frames by themselves: nothing asks for the visible count.
CullNext ==
    \/ \E val \in 0..MaxParticles : CullSetTotalStarCount(val)
    \/ \E scene \in Scenes : CullFrame(scene)
    \/ CullExecute
    \/ \E id \in 0..MaxParticles : CullInvoke(id)
    \/ CullEmptyDispatch

SpecCull == CullInit /\ [][CullNext]_vars

\* The scenes of the frames whose count is read back: every particle in the
\* middle of the view, or every particle behind the camera.
ReadbackScenes ==
    {[id \in ParticleIds |-> Placement(0, 0, NdcResolution, 0)],
     [id \in ParticleIds |-> Placement(0, 0, -NdcResolution, 0)]}

\* The culling frames with a display that asks for the visible count.
ReadbackNext ==
    \/ \E val \in 0..MaxParticles : CullSetTotalStarCount(val)
    \/ \E scene \in ReadbackScenes : CullFrame(scene)
    \/ CullReadVisibleCount
    \/ CullMapResolved
    \/ CullExecute
    \/ \E id \in 0..MaxParticles : CullInvoke(id)
    \/ CullEmptyDispatch

SpecReadback == CullInit /\ [][ReadbackNext]_vars

\* ------------------------------------------------------------------------
\* C16: a busy readback buffer
\* ------------------------------------------------------------------------

\* C16: while the readback buffer of the visible count is mapped or its map
\* is pending, a frame records no copy into it and is submitted all the
\* same, and readVisibleCount() returns the cached count, which it leaves as
\* it was; no call of readVisibleCount() ends in an exception.
C16_BusyReadbackIsSkipped ==
    /\ (lastCall.op = "frame" /\ lastCall.busy) =>
           ~lastCall.copied /\ lastCall.submitted
    /\ (lastCall.op = "readVisibleCount" /\ lastCall.busy) =>
           /\ lastCall.outcome = "returned"
           /\ lastCall.returned = lastCall.cached
           /\ vis.lastVisibleCount = lastCall.cached
    /\ lastCall.op \in {"readVisibleCount", "mapResolved"} => lastCall.outcome # "thrown"

\* The count is asked for while an earlier map is pending, and a count
\* other than the initial one is cached.
C16_Witness ==
    /\ lastCall.op = "readVisibleCount"
    /\ lastCall.busy
    /\ lastCall.cached > 0

\* A frame is recorded while the map is pending.
C16_WitnessFrame ==
    /\ lastCall.op = "frame"
    /\ lastCall.busy

\* ------------------------------------------------------------------------
\* C18, C19, C20: the visible-index set a culling pass leaves
\* ------------------------------------------------------------------------

Range(seq) == {seq[k] : k \in DOMAIN seq}

\* C18: the atomic count is zero when the invocations of a pass start, and
\* when the pass ends the count is the number of appends of this pass and
\* the indices below the count are the ones this pass appended: nothing of
\* an earlier frame is counted or listed.
C18_RebuiltFromScratch ==
    /\ (/\ device.queue # <<>>
        /\ Head(device.queue).op = "dispatchWorkgroups"
        /\ Head(device.queue).done = {}) =>
           ContentsOf(device, Head(device.queue).buffer).count = 0
    /\ lastCall.op = "cullDone" =>
           /\ lastCall.count = Cardinality(lastCall.appended)
           /\ Range(lastCall.listed) = lastCall.appended

\* A pass ended with fewer visible particles than an earlier one: an index
\* of the earlier frame is still stored past the count.
C18_Witness ==
    /\ lastCall.op = "cullDone"
    /\ \E id \in Range(lastCall.stale) : id \notin Range(lastCall.listed)

\* C19: when a culling pass ends, the visible count is at most the total
\* particle count of its frame.
C19_CountAtMostTotal ==
    lastCall.op = "cullDone" => lastCall.count <= lastCall.total

\* A pass ended with every particle visible.
C19_Witness ==
    /\ lastCall.op = "cullDone"
    /\ lastCall.total = MaxParticles
    /\ lastCall.count = lastCall.total

\* The projected bounds of a particle (its projected centre, give or take
\* its projected radius, on both axes) meet the viewport extended by the
\* base margin, and the particle is in front of the camera.
ProjectedBoundsIntersect(p) ==
    /\ p.clipPos.w > 0
    /\ \A c \in {p.clipPos.x, p.clipPos.y} :
           /\ (c - p.worldSize) * NdcResolution <= (NdcResolution + baseMargin) * p.clipPos.w
           /\ (c + p.worldSize) * NdcResolution >= -(NdcResolution + baseMargin) * p.clipPos.w

\* C20: when a culling pass ends, the indices below the count are exactly
\* the particles of the frame whose projected bounds meet the extended
\* viewport, each once, none of them behind the camera, whatever the order
\* of the atomic appends.
C20_ExactlyTheVisibleParticles ==
    lastCall.op = "cullDone" =>
        /\ Len(lastCall.listed) = lastCall.count
        /\ \A i, j \in DOMAIN lastCall.listed :
               lastCall.listed[i] = lastCall.listed[j] => i = j
        /\ Range(lastCall.listed) =
               {id \in 0..(lastCall.total - 1) : ProjectedBoundsIntersect(lastCall.scene[id])}
        /\ \A id \in Range(lastCall.listed) : lastCall.scene[id].clipPos.w > 0

\* A pass ended in which the invocation of the later particle appended first.
C20_Witness ==
    /\ lastCall.op = "cullDone"
    /\ lastCall.count > 1
    /\ lastCall.listed[1] > lastCall.listed[2]

\* ------------------------------------------------------------------------
\* PerformanceProfiler and the timing commands of the rendering manager
\* ------------------------------------------------------------------------

GPU_TIMING_RESOLUTION == 59

\* GalaxySimulator.start(): the device is requested with "timestamp-query"
\* and, if that request fails, without it.
GalaxySimulator_start(w, adapterHasTimestampQuery) ==
    [w EXCEPT !.profiler.timestampQuery = adapterHasTimestampQuery]

\* PerformanceProfiler.getAdvancedOptionsEnabled(): true unless "false" is stored.
PerformanceProfiler_getAdvancedOptionsEnabled(w) ==
    IF w.profiler.showAdvancedOptions = "null"
    THEN TRUE
    ELSE w.profiler.showAdvancedOptions = "true"

\* RenderingManager.isAdvancedOptionsEnabled(): true only if "true" is stored.
RenderingManager_isAdvancedOptionsEnabled(w) ==
    w.profiler.showAdvancedOptions = "true"

\* The three objects create() makes.
PerformanceProfiler_createTimingResources(w) ==
    Create(Create(Create(w, LAMBDA v, id : [v EXCEPT !.profiler.querySet = id]),
                  LAMBDA v, id : [v EXCEPT !.profiler.queryBuffer = id]),
           LAMBDA v, id : [v EXCEPT !.profiler.resultBuffer = id])

\* create() without the test of the device's features.
PerformanceProfiler_create_noFeatureTest(w, throws) ==
    IF throws
    THEN [w EXCEPT !.profiler.querySet = Null,
                   !.profiler.queryBuffer = Null,
                   !.profiler.resultBuffer = Null]
    ELSE PerformanceProfiler_createTimingResources(w)

\* create(); throws: the device throws while the objects are created.
PerformanceProfiler_create(w, throws) ==
    IF ~w.profiler.timestampQuery
    THEN w
    ELSE IF throws
         THEN [w EXCEPT !.profiler.querySet = Null,
                        !.profiler.queryBuffer = Null,
                        !.profiler.resultBuffer = Null]
         ELSE PerformanceProfiler_createTimingResources(w)

PerformanceProfiler_destroy(w) ==
    [DestroyObj(DestroyObj(DestroyObj(w, w.profiler.querySet), w.profiler.queryBuffer),
                w.profiler.resultBuffer)
        EXCEPT !.profiler.querySet = Null,
               !.profiler.queryBuffer = Null,
               !.profiler.resultBuffer = Null]

PerformanceProfiler_isActiveFrame(w) ==
    w.profiler.frameCount % GPU_TIMING_RESOLUTION = 0

\* The write indices of the timestamps of the star pass; {} is undefined.
PerformanceProfiler_getRenderPassTimestampWrites(w) ==
    IF w.profiler.querySet = Null
    THEN {}
    ELSE IF PerformanceProfiler_isActiveFrame(w) THEN {0, 1} ELSE {}

PerformanceProfiler_getToneMappingTimestampWrites(w) ==
    IF w.profiler.querySet = Null
    THEN {}
    ELSE IF PerformanceProfiler_isActiveFrame(w) THEN {1, 2} ELSE {}

PerformanceProfiler_hasGpuTiming(w) == w.profiler.querySet # Null

PerformanceProfiler_shouldReadTimingResults(w, renderSuccess) ==
    IF renderSuccess
    THEN PerformanceProfiler_isActiveFrame(w) /\ ~w.profiler.isReadingTimingResults
    ELSE FALSE

\* readTimingResults() up to its await, without the test of the flag.
PerformanceProfiler_readTimingResults_noFlagTest(w) ==
    IF w.profiler.resultBuffer = Null
    THEN [world |-> w, result |-> "null"]
    ELSE IF w.profiler.mapping = w.profiler.resultBuffer
         THEN [world |-> w, result |-> "null"]
         ELSE [world |-> [w EXCEPT !.profiler.isReadingTimingResults = TRUE,
                                   !.profiler.mapping = w.profiler.resultBuffer],
               result |-> "awaiting"]

\* readTimingResults() up to its await: "null" is returned, or the map of
\* the result buffer is awaited.  A second mapAsync() on a buffer whose map
\* is pending rejects; the catch and the finally then run at once.
PerformanceProfiler_readTimingResults(w) ==
    IF w.profiler.resultBuffer = Null \/ w.profiler.isReadingTimingResults
    THEN [world |-> w, result |-> "null"]
    ELSE IF w.profiler.mapping = w.profiler.resultBuffer
         THEN [world |-> w, result |-> "null"]
         ELSE [world |-> [w EXCEPT !.profiler.isReadingTimingResults = TRUE,
                                   !.profiler.mapping = w.profiler.resultBuffer],
               result |-> "awaiting"]

\* readTimingResults() after its await, without the finally block: a
\* rejected map leaves the flag as it is.
PerformanceProfiler_readMappedTimes_noFinally(w) ==
    IF w.profiler.mapping \in w.heap.destroyed
    THEN [w EXCEPT !.profiler.mapping = Null]
    ELSE [w EXCEPT !.profiler.gpuTimes = "measured",
                   !.profiler.isReadingTimingResults = FALSE,
                   !.profiler.mapping = Null]

\* readTimingResults() after its await: the map was granted, or it was
\* rejected because the buffer has been destroyed.
PerformanceProfiler_readMappedTimes(w) ==
    IF w.profiler.mapping \in w.heap.destroyed
    THEN [w EXCEPT !.profiler.isReadingTimingResults = FALSE,
                   !.profiler.mapping = Null]
    ELSE [w EXCEPT !.profiler.gpuTimes = "measured",
                   !.profiler.isReadingTimingResults = FALSE,
                   !.profiler.mapping = Null]

\* resolveTimingQueries() without the test of isReadingTimingResults.
RenderingManager_resolveTimingQueries_ignoresReadback(w, isReadingTimingResults) ==
    IF ~RenderingManager_isAdvancedOptionsEnabled(w)
    THEN [resolved |-> FALSE, copied |-> FALSE]
    ELSE IF w.profiler.querySet # Null /\ w.profiler.queryBuffer # Null
         THEN [resolved |-> TRUE, copied |-> w.profiler.resultBuffer # Null]
         ELSE [resolved |-> FALSE, copied |-> FALSE]

\* resolveTimingQueries(): does it record resolveQuerySet, and the copy into
\* the result buffer.
RenderingManager_resolveTimingQueries(w, isReadingTimingResults) ==
    IF ~RenderingManager_isAdvancedOptionsEnabled(w)
    THEN [resolved |-> FALSE, copied |-> FALSE]
    ELSE IF /\ w.profiler.querySet # Null
            /\ w.profiler.queryBuffer # Null
            /\ ~isReadingTimingResults
         THEN [resolved |-> TRUE, copied |-> w.profiler.resultBuffer # Null]
         ELSE [resolved |-> FALSE, copied |-> FALSE]

\* The timing commands of one frame of render(): nothing of a frame that
\* fails; of another one the timestamp writes of the star pass and of the
\* tone-mapping pass and the resolve, and the frame is counted.
RenderingManager_renderTimed(w, success) ==
    IF ~success
    THEN [world |-> w, success |-> FALSE, timestampWrites |-> {},
          resolved |-> FALSE, copied |-> FALSE]
    ELSE [world |-> [w EXCEPT !.profiler.frameCount = (@ + 1) % GPU_TIMING_RESOLUTION],
          success |-> TRUE,
          timestampWrites |->
              IF RenderingManager_isAdvancedOptionsEnabled(w)
              THEN PerformanceProfiler_getRenderPassTimestampWrites(w)
                       \cup PerformanceProfiler_getToneMappingTimestampWrites(w)
              ELSE {},
          resolved |-> RenderingManager_resolveTimingQueries(
                           w, w.profiler.isReadingTimingResults).resolved,
          copied |-> RenderingManager_resolveTimingQueries(
                         w, w.profiler.isReadingTimingResults).copied]

\* What render() of the simulator adds to a rendered frame r: the read of
\* the timing results, if it is due.
TimedFrameOutcome(r, read) ==
    [world |-> read.world, success |-> r.success, timestampWrites |-> r.timestampWrites,
     resolved |-> r.resolved, copied |-> r.copied, read |-> read.result]

\* GalaxySimulator.render(), its timing part.
GalaxySimulator_renderTimed(w, success) ==
    Then(RenderingManager_renderTimed(w, success),
         LAMBDA r : TimedFrameOutcome(
                        r, IF PerformanceProfiler_shouldReadTimingResults(r.world, r.success)
                           THEN PerformanceProfiler_readTimingResults(r.world)
                           ELSE [world |-> r.world, result |-> "none"]))

\* handleAdvancedOptionsChange(), after the checkbox has stored its value.
GalaxySimulator_handleAdvancedOptionsChange(w, throws) ==
    IF PerformanceProfiler_getAdvancedOptionsEnabled(w)
    THEN PerformanceProfiler_create(w, throws)
    ELSE PerformanceProfiler_destroy(w)

\* The timing display of the user interface: the GPU lines show the times
\* or "N/A".
UIManager_timingDisplay(w) ==
    IF PerformanceProfiler_hasGpuTiming(w) THEN w.profiler.gpuTimes ELSE "N/A"

\* ------------------------------------------------------------------------
\* Specification of the GPU timing
\* ------------------------------------------------------------------------

NoTiming ==
    [op |-> "none", success |-> FALSE, active |-> FALSE, timestampWrites |-> {},
     resolved |-> FALSE, copied |-> FALSE, read |-> "none", shown |-> "none"]

\* The step left the world w and the record call of what it did.
Timing(w, call) ==
    /\ w.heap.nextId <= MaxObjects + 1
    /\ Commit(w)
    /\ lastCall' = call
    /\ UNCHANGED <<exercised, notCache>>

\* start() and the part of the constructor that makes the profiler.
TimingInit ==
    /\ \E adapterHasTimestampQuery \in BOOLEAN,
          stored \in {"null", "true", "false"}, throws \in BOOLEAN :
           Start(Then([GalaxySimulator_start(FreshWorld(MaxDim, MaxDim),
                                             adapterHasTimestampQuery)
                          EXCEPT !.profiler.showAdvancedOptions = stored],
                      LAMBDA w : IF PerformanceProfiler_getAdvancedOptionsEnabled(w)
                                 THEN PerformanceProfiler_create(w, throws)
                                 ELSE w))
    /\ boundStale = {}
    /\ lastCall = NoTiming
    /\ exercised = "PerformanceProfiler"
    /\ lastFrame = NoFrame
    /\ pending = NothingPending

\* The checkbox of the advanced options is switched.
TimingToggleAdvancedOptions(isChecked, throws) ==
    /\ isChecked # profiler.showAdvancedOptions
    /\ Timing(GalaxySimulator_handleAdvancedOptionsChange(
                  [World EXCEPT !.profiler.showAdvancedOptions = isChecked], throws),
              [NoTiming EXCEPT !.op = "advancedOptions"])

\* One frame; success is what render() of the rendering manager returns.
TimingFrame(success) ==
    Then(GalaxySimulator_renderTimed(World, success),
         LAMBDA r : Timing(r.world,
                           [NoTiming EXCEPT !.op = "frame",
                                            !.success = r.success,
                                            !.active = PerformanceProfiler_isActiveFrame(r.world),
                                            !.timestampWrites = r.timestampWrites,
                                            !.resolved = r.resolved,
                                            !.copied = r.copied,
                                            !.read = r.read]))

\* The awaited map of the result buffer is settled.
TimingMapSettled ==
    /\ profiler.mapping # Null
    /\ Timing(PerformanceProfiler_readMappedTimes(World),
              [NoTiming EXCEPT !.op = "mapSettled",
                               !.read = IF profiler.mapping \in heap.destroyed
                                        THEN "null" ELSE "times"])

\* The user interface refreshes its timing display.
TimingDisplay ==
    Timing(World, [NoTiming EXCEPT !.op = "display",
                                   !.shown = UIManager_timingDisplay(World)])

TimingNext ==
    \/ \E isChecked \in {"true", "false"}, throws \in BOOLEAN :
           TimingToggleAdvancedOptions(isChecked, throws)
    \/ \E success \in BOOLEAN : TimingFrame(success)
    \/ TimingMapSettled
    \/ TimingDisplay

SpecTiming == TimingInit /\ [][TimingNext]_vars

\* ------------------------------------------------------------------------
\* C17: a device without timing queries
\* ------------------------------------------------------------------------

\* C17: on a device without the timestamp-query feature the profiler never
\* holds a query set, so hasGpuTiming() is false; no frame records a
\* timestamp write or a resolve; the read of the timing results, when it is
\* due, returns null, no read is ever left in progress, and the display
\* shows "N/A".
C17_UnsupportedTimingIsUnavailable ==
    ~profiler.timestampQuery =>
        /\ ~PerformanceProfiler_hasGpuTiming(World)
        /\ ~profiler.isReadingTimingResults
        /\ lastCall.op = "frame" =>
               /\ lastCall.timestampWrites = {}
               /\ ~lastCall.resolved
               /\ ~lastCall.copied
               /\ lastCall.read \in {"none", "null"}
        /\ lastCall.op = "display" => lastCall.shown = "N/A"

\* On a device without the feature, with the advanced options switched on,
\* a frame in which the read of the timing results is due has been rendered.
C17_Witness ==
    /\ ~profiler.timestampQuery
    /\ profiler.showAdvancedOptions = "true"
    /\ lastCall.op = "frame"
    /\ lastCall.success
    /\ lastCall.read = "null"

\* ------------------------------------------------------------------------
\* The size of a particle in the culling shader and in the vertex shader
\* ------------------------------------------------------------------------

STAR == 0

DUST == 1

BASE_STAR_COUNT == 1000000

\* The largest r with r * r <= x.
sqrt(x) == CHOOSE r \in 0..1000 : r * r <= x /\ x < (r + 1) * (r + 1)

\* dustSizeScale() of both shaders, rounded down to an integer.
dustSizeScale(totalStarCount) == sqrt(BASE_STAR_COUNT \div totalStarCount)

\* maxSizeVariation of the culling shader, 1.5, in eighths.
maxSizeVariation == 12

\* sizeVariationFactor of the vertex shader in eighths, for a randomValue in
\* quarters and a particleSizeVariation in halves:
\* 1 + (randomValue - 0.5) * 2 * 0.5 * particleSizeVariation.
sizeVariationFactor(randomValue, particleSizeVariation) ==
    IF particleSizeVariation > 0
    THEN 8 + (randomValue - 2) * particleSizeVariation
    ELSE 8

\* worldSize of main() of the culling shader, in eighths of a world unit.
cull_worldSize(w, p) ==
    IF p.typ = STAR
    THEN w.settings.brightStarSize * p.mag * 8
    ELSE w.settings.dustParticleSize * dustSizeScale(w.galaxy.totalStarCount)
             * maxSizeVariation

\* world_size of main() of the vertex shader, in eighths of a world unit;
\* p.randomValue is hashFloat(instanceIdx).
vertex_world_size(w, p) ==
    IF p.typ = STAR
    THEN p.mag * w.settings.brightStarSize
             * sizeVariationFactor(p.randomValue, w.settings.particleSizeVariation)
    ELSE w.settings.dustParticleSize
             * sizeVariationFactor(p.randomValue, w.settings.particleSizeVariation)
             * dustSizeScale(w.galaxy.totalStarCount)

\* ------------------------------------------------------------------------
\* Specification of the particle sizes
\* ------------------------------------------------------------------------

MaxSize == 2

\* hashFloat() of an instance index lies in [0, 1]; in quarters.
RandomValues == 0..4

\* particleSizeVariation of the presets lies in [0, 1]; in halves.
SizeVariations == 0..2

SizedParticles ==
    [typ : {STAR, DUST}, mag : 1..MaxSize, randomValue : RandomValues]

NoSizing == [op |-> "none", typ |-> STAR, randomValue |-> 0, worldSize |-> 0, world_size |-> 0]

\* A galaxy with any sizes, jitter and particle count above zero.
SizeInit ==
    /\ \E brightStarSize \in 1..MaxSize, dustParticleSize \in 1..MaxSize,
          particleSizeVariation \in SizeVariations, totalStarCount \in 1..MaxParticles :
           Start([FreshWorld(MaxDim, MaxDim)
                     EXCEPT !.settings.brightStarSize = brightStarSize,
                            !.settings.dustParticleSize = dustParticleSize,
                            !.settings.particleSizeVariation = particleSizeVariation,
                            !.galaxy.totalStarCount = totalStarCount])
    /\ boundStale = {}
    /\ lastCall = NoSizing
    /\ exercised = "particleSize"
    /\ lastFrame = NoFrame
    /\ pending = NothingPending

\* Both shaders size the particle p from the same uniforms.
SizeParticle(p) ==
    /\ lastCall' = [op |-> "size", typ |-> p.typ, randomValue |-> p.randomValue,
                    worldSize |-> cull_worldSize(World, p),
                    world_size |-> vertex_world_size(World, p)]
    /\ Commit(World)
    /\ UNCHANGED <<exercised, notCache>>

SizeNext == \E p \in SizedParticles : SizeParticle(p)

SpecSize == SizeInit /\ [][SizeNext]_vars

\* C21: the size the culling shader gives a particle is at least the size
\* the vertex shader draws it with.
C21_FootprintCoversDrawnSize ==
    lastCall.op = "size" => lastCall.worldSize >= lastCall.world_size

\* ------------------------------------------------------------------------
\* Galaxy: the mutators and the callbacks they fire
\* ------------------------------------------------------------------------

\* The setters that end with this.callbacks.onToneParametersChanged?.()
ToneSetters ==
    {"setExposure", "setSaturation", "setShadowLift", "setMinLiftThreshold",
     "setToneMapToe", "setToneMapHighlights", "setToneMapMidtones",
     "setToneMapShoulder", "setBloomIntensity", "setHdrBrightness"}

\* ... with onBloomParametersChanged
BloomSetters == {"setBloomThreshold"}

\* ... with onParticleSizeChanged
ParticleSizeSetters ==
    {"setParticleSizeVariation", "setMinSizeVariation", "setDustParticleSize",
     "setBrightStarSize", "setStarEdgeSoftness"}

\* ... with onUniformDataChanged
UniformSetters ==
    {"setRadialExposureFalloff", "setRotationSpeed", "setBrightStarBrightness",
     "setTotalStarCount", "setGalaxyRadius", "setSpiralPeakPosition",
     "setSpiralIntensity", "setSpiralTightness", "setSpiralArmWaves",
     "setSpiralWaveStrength", "setBaseTemperature", "setBrightStarCount",
     "setCentralBulgeDensity", "setDiskStarDensity", "setBackgroundStarDensity",
     "setDensityFalloff", "setMinimumBrightness", "setBrightnessVariation",
     "setBrightStarMinTemperature", "setBrightStarMaxTemperature",
     "setTemperatureRadiusFactor", "setSpiralWidthBase", "setSpiralWidthScale",
     "setSpiralEccentricityScale", "setMaxRotationVelocity",
     "setRotationVelocityScale", "setBrightStarRadiusFactor",
     "setCoreBrightStarSuppressionMag", "setCoreBrightStarSuppressionExtent",
     "setMinColorTemperature", "setMaxColorTemperature", "setGalaxyEdgeFadeStart",
     "setBrightStarBaseMagnitude"}

\* ... with onDenoiseParametersChanged
DenoiseSetters == {"setDenoiseSpatial", "setDenoiseColor", "setDenoiseTemporalAlpha"}

\* The setters that fire nothing.
SilentSetters == {"setMaxFrameRate", "setMaxOverdraw"}

Setters ==
    ToneSetters \cup BloomSetters \cup ParticleSizeSetters \cup UniformSetters
        \cup DenoiseSetters \cup SilentSetters \cup {"setOverdrawDebug"}

\* Math.max(lo, Math.min(hi, val))
Clamp(lo, hi, val) == IF val < lo THEN lo ELSE IF val > hi THEN hi ELSE val

\* The assignment of the setter; the fields the model does not follow are
\* left out.
Galaxy_assign(w, setter, val) ==
    CASE setter = "setBrightStarSize" -> [w EXCEPT !.settings.brightStarSize = val]
      [] setter = "setDustParticleSize" -> [w EXCEPT !.settings.dustParticleSize = val]
      [] setter = "setParticleSizeVariation" ->
             [w EXCEPT !.settings.particleSizeVariation = val]
      [] setter = "setTotalStarCount" -> [w EXCEPT !.galaxy.totalStarCount = val]
      [] setter = "setExposure" -> [w EXCEPT !.settings.exposure = val]
      [] setter = "setBloomThreshold" -> [w EXCEPT !.settings.bloomThreshold = val]
      [] setter = "setDenoiseTemporalAlpha" ->
             [w EXCEPT !.settings.denoiseTemporalAlpha = val]
      [] setter = "setOverdrawDebug" -> [w EXCEPT !.settings.overdrawDebug = val]
      [] setter = "setMaxFrameRate" ->
             [w EXCEPT !.settings.maxFrameRate = Clamp(1, 120, val)]
      [] setter = "setMaxOverdraw" ->
             [w EXCEPT !.settings.maxOverdraw = Clamp(1, 4096, val)]
      [] OTHER -> w

\* handleOverdrawDebugChange() behind onOverdrawDebugChanged
GalaxySimulator_onOverdrawDebugChanged(w) ==
    ResourceManager_setup(
        IF w.build.simulator = "v1"
        THEN AccumulationManager_requestFullRenderNextFrame(w)
        ELSE GalaxySimulator_resetAccumulationBuffers(w, FALSE))

\* handleParticleSizeChange() behind onParticleSizeChanged; the uniforms it
\* writes and the particles it regenerates are not followed here.
GalaxySimulator_onParticleSizeChanged(w) == GalaxySimulator_onUniformDataChanged(w)

\* The callbacks getGalaxyCallbacks() registers; onDenoiseParametersChanged
\* is not among them, so this.callbacks.onDenoiseParametersChanged?.() calls
\* nothing.
GalaxySimulator_getGalaxyCallbacks(w, callback) ==
    CASE callback = "onToneParametersChanged" -> GalaxySimulator_onToneParametersChanged(w)
      [] callback = "onBloomParametersChanged" -> GalaxySimulator_onBloomParametersChanged(w)
      [] callback = "onUniformDataChanged" -> GalaxySimulator_onUniformDataChanged(w)
      [] callback = "onOverdrawDebugChanged" -> GalaxySimulator_onOverdrawDebugChanged(w)
      [] callback = "onParticleSizeChanged" -> GalaxySimulator_onParticleSizeChanged(w)
      [] callback = "onAdvancedOptionsChanged" ->
             GalaxySimulator_handleAdvancedOptionsChange(w, FALSE)
      [] OTHER -> w

\* this.callbacks.<callback>?.() of a galaxy that has fired m.fired so far.
Fire(m, callback) ==
    [world |-> GalaxySimulator_getGalaxyCallbacks(m.world, callback),
     fired |-> Append(m.fired, callback)]

\* The callbacks are fired one after the other.
RECURSIVE FireAll(_, _)
FireAll(m, callbacks) ==
    IF callbacks = <<>>
    THEN m
    ELSE FireAll(Fire(m, Head(callbacks)), Tail(callbacks))

\* The callbacks at the end of a setter, where the tone setters also fire
\* onUniformDataChanged.
Galaxy_callbacks_toneAlsoUniform(setter) ==
    CASE setter \in ToneSetters -> <<"onToneParametersChanged", "onUniformDataChanged">>
      [] setter \in BloomSetters -> <<"onBloomParametersChanged">>
      [] setter \in ParticleSizeSetters -> <<"onParticleSizeChanged">>
      [] setter \in UniformSetters -> <<"onUniformDataChanged">>
      [] setter \in DenoiseSetters -> <<"onDenoiseParametersChanged">>
      [] setter = "setOverdrawDebug" -> <<"onOverdrawDebugChanged">>
      [] setter = "updateFromPreset" ->
             <<"onUniformDataChanged", "onToneParametersChanged",
               "onBloomParametersChanged", "onDenoiseParametersChanged">>
      [] setter = "signalAdvancedOptionsMutation" -> <<"onAdvancedOptionsChanged">>
      [] OTHER -> <<>>

\* The callbacks a method of the galaxy calls after its assignments, in
\* order.
Galaxy_callbacks(setter) ==
    CASE setter \in ToneSetters -> <<"onToneParametersChanged">>
      [] setter \in BloomSetters -> <<"onBloomParametersChanged">>
      [] setter \in ParticleSizeSetters -> <<"onParticleSizeChanged">>
      [] setter \in UniformSetters -> <<"onUniformDataChanged">>
      [] setter \in DenoiseSetters -> <<"onDenoiseParametersChanged">>
      [] setter = "setOverdrawDebug" -> <<"onOverdrawDebugChanged">>
      [] setter = "updateFromPreset" ->
             <<"onUniformDataChanged", "onToneParametersChanged",
               "onBloomParametersChanged", "onDenoiseParametersChanged">>
      [] setter = "signalAdvancedOptionsMutation" -> <<"onAdvancedOptionsChanged">>
      [] OTHER -> <<>>

\* The setter of the galaxy called with val: the world after it and the
\* callbacks it fired, in order.  setOverdrawDebug does nothing when the
\* value is the one it has.
Galaxy_set(w, setter, val) ==
    IF setter = "setOverdrawDebug" /\ w.settings.overdrawDebug = val
    THEN [world |-> w, fired |-> <<>>]
    ELSE FireAll([world |-> Galaxy_assign(w, setter, val), fired |-> <<>>],
                 Galaxy_callbacks(setter))

\* updateFromPreset(): Object.assign and then four callbacks.
Galaxy_updateFromPresetFiring(w, preset) ==
    FireAll([world |-> [w EXCEPT !.settings = preset.settings,
                                 !.galaxy.totalStarCount = preset.totalStarCount],
             fired |-> <<>>],
            Galaxy_callbacks("updateFromPreset"))

Galaxy_signalAdvancedOptionsMutation(w) ==
    FireAll([world |-> w, fired |-> <<>>], Galaxy_callbacks("signalAdvancedOptionsMutation"))

\* ------------------------------------------------------------------------
\* Specification of the mutators
\* ------------------------------------------------------------------------

\* At most MaxMutations mutators are called in one behaviour.
MaxMutations == 2

\* calls counts the mutators called so far.
NoMutation == [op |-> "none", fired |-> <<>>, calls |-> 0]

\* The values a setter is called with.
SetterValues(setter) ==
    CASE setter \in {"setBrightStarSize", "setDustParticleSize"} -> 1..MaxSize
      [] setter = "setParticleSizeVariation" -> SizeVariations
      [] setter = "setTotalStarCount" -> StarCounts
      [] setter = "setOverdrawDebug" -> BOOLEAN
      [] setter = "setMaxFrameRate" -> {0, 30, 121}
      [] setter = "setMaxOverdraw" -> {0, 64, 5000}
      [] OTHER -> {0}

\* The presets of the model.
MutatorPresets ==
    [settings : {NoSettings, [NoSettings EXCEPT !.overdrawDebug = TRUE, !.maxOverdraw = 64]},
     totalStarCount : {MaxParticles}]

MutatorInit ==
    /\ \E b \in Builds :
           Start(GalaxySimulator_constructor([FreshWorld(MaxDim, MaxDim) EXCEPT !.build = b]))
    /\ boundStale = {}
    /\ lastCall = NoMutation
    /\ exercised = "Galaxy"
    /\ lastFrame = NoFrame
    /\ pending = NothingPending

\* The mutator op has returned m.
Mutated(op, m) ==
    /\ lastCall.calls < MaxMutations
    /\ Commit(m.world)
    /\ lastCall' = [op |-> op, fired |-> m.fired, calls |-> lastCall.calls + 1]
    /\ UNCHANGED <<exercised, notCache>>

MutatorSet(setter, val) == Mutated(setter, Galaxy_set(World, setter, val))

MutatorUpdateFromPreset(preset) ==
    Mutated("updateFromPreset", Galaxy_updateFromPresetFiring(World, preset))

MutatorSignalAdvancedOptions ==
    Mutated("signalAdvancedOptionsMutation", Galaxy_signalAdvancedOptionsMutation(World))

MutatorNext ==
    \/ \E setter \in Setters : \E val \in SetterValues(setter) : MutatorSet(setter, val)
    \/ \E preset \in MutatorPresets : MutatorUpdateFromPreset(preset)
    \/ MutatorSignalAdvancedOptions

SpecMutators == MutatorInit /\ [][MutatorNext]_vars

\* The callbacks of the six change classes.
ClassCallbacks ==
    {"onUniformDataChanged", "onToneParametersChanged", "onBloomParametersChanged",
     "onParticleSizeChanged", "onOverdrawDebugChanged", "onDenoiseParametersChanged"}

\* C22 as stated: every mutator of the state fires the callback of exactly
\* one of the six change classes and of no other.
C22_ExactlyOneClass ==
    lastCall.op \in Setters \cup {"updateFromPreset"} =>
        /\ Cardinality(Range(lastCall.fired)) <= 1
        /\ Range(lastCall.fired) \subseteq ClassCallbacks

\* C22: a setter of one field fires at most one callback, and that one is
\* the callback of one of the six change classes; updateFromPreset fires the
\* callbacks of four classes: uniform data, tone, bloom and denoise.
C22_SetterFiresOneClass ==
    /\ lastCall.op \in Setters =>
           /\ Len(lastCall.fired) <= 1
           /\ Range(lastCall.fired) \subseteq ClassCallbacks
    /\ lastCall.op = "updateFromPreset" =>
           lastCall.fired = <<"onUniformDataChanged", "onToneParametersChanged",
                              "onBloomParametersChanged", "onDenoiseParametersChanged">>

\* A tone setter has fired its callback.
C22_Witness ==
    /\ lastCall.op = "setBloomIntensity"
    /\ lastCall.fired = <<"onToneParametersChanged">>

\* A preset has been applied.
C22_WitnessPreset ==
    /\ lastCall.op = "updateFromPreset"
    /\ settings.overdrawDebug

\* ------------------------------------------------------------------------
\* The uniform blocks of the tone-mapping and bloom stages
\* ------------------------------------------------------------------------

\* The values the sliders give the exposure and the bloom threshold.
MaxUniformValue == 2

UniformValues == 1..MaxUniformValue

\* Nothing was updated by the last step.  unchanged tells that the step left
\* the parameter of the block it updated as it was.
NoUpdate == [op |-> "none", block |-> "none", unchanged |-> FALSE]

UniformInit ==
    /\ \E b \in Builds :
           Start(GalaxySimulator_constructor([FreshWorld(MaxDim, MaxDim) EXCEPT !.build = b]))
    /\ boundStale = {}
    /\ lastCall = NoUpdate
    /\ exercised = "uniforms"
    /\ lastFrame = NoFrame
    /\ pending = NothingPending

\* The slider of a tone or bloom parameter: Galaxy.set<Key>(val) and the
\* callback behind it.
UniformSet(setter, block, val, old) ==
    /\ Commit(Galaxy_set(World, setter, val).world)
    /\ lastCall' = [op |-> setter, block |-> block, unchanged |-> val = old]
    /\ UNCHANGED <<exercised, notCache>>

\* handleOverdrawDebugChange(): every resource is set up again
UniformSetupAll ==
    /\ Commit(GalaxySimulator_onOverdrawDebugChanged(World))
    /\ lastCall' = [op |-> "setup", block |-> "all", unchanged |-> TRUE]
    /\ UNCHANGED <<exercised, notCache>>

\* The canvas gets another size.
UniformResize(width, height) ==
    /\ Commit(GalaxySimulator_resize(World, width, height))
    /\ lastCall' = [op |-> "resize", block |-> "all", unchanged |-> TRUE]
    /\ UNCHANGED <<exercised, notCache>>

UniformNext ==
    \/ \E val \in UniformValues :
           UniformSet("setExposure", "toneParamBuffer", val, settings.exposure)
    \/ \E val \in UniformValues :
           UniformSet("setBloomThreshold", "bloomParamsBuffer", val, settings.bloomThreshold)
    \/ UniformSetupAll
    \/ \E width, height \in Dims : UniformResize(width, height)

SpecUniforms == UniformInit /\ [][UniformNext]_vars

\* C23: a per-stage uniform block is written to the GPU only when its value
\* differs from the value last written: no step writes a block's buffer with
\* the value that buffer already holds.
C23_WrittenOnlyWhenChanged == lastCall.op # "none" => gpu.redundant = {}

\* ------------------------------------------------------------------------
\* Regeneration of the particle buffer
\* ------------------------------------------------------------------------

\* The slots of buffer as the device holds them: a buffer the generator has
\* not filled since its creation is zero-initialised.
ParticleSlots(w, buffer) ==
    IF w.gpu.particleData.buffer = buffer
    THEN w.gpu.particleData.slots
    ELSE NoParticleData.slots

\* The compute pass of Particles.update(): an invocation of the generator
\* returns for id >= totalStarCount and writes particles[id] otherwise.  The
\* pass runs in queue order, before the draw of the frame whose encoder
\* records it.
Particles_dispatch(w) ==
    [w EXCEPT !.gpu.particleData =
        [buffer |-> w.particles.particleStorageBuffer,
         slots |-> [id \in ParticleIds |->
                       IF id < w.galaxy.totalStarCount
                       THEN w.galaxy.totalStarCount
                       ELSE ParticleSlots(w, w.particles.particleStorageBuffer)[id]]]]

\* A Particles.update() that fills the buffer only when it was recreated.
Particles_update_onlyWhenRecreated(w) ==
    LET bufferRecreated ==
            \/ w.particles.particleStorageBuffer = Null
            \/ w.particles.size < w.galaxy.totalStarCount * particleDataStride
    IN  Then(ParticleRenderer_allocateEmptyBuffer(w, w.galaxy.totalStarCount),
             LAMBDA v : [(IF bufferRecreated THEN Particles_dispatch(v) ELSE v)
                            EXCEPT !.particles.lastParticleCount = v.galaxy.totalStarCount])

\* Particles.update(commandEncoder?) of the generation that counts its
\* particles; the bind groups it refreshes are not followed here.
Particles_update(w) ==
    Then(ParticleRenderer_allocateEmptyBuffer(w, w.galaxy.totalStarCount),
         LAMBDA v : [Particles_dispatch(v)
                        EXCEPT !.particles.lastParticleCount = v.galaxy.totalStarCount])

\* updateParticles(): updateUniformData(); particles.update()
GalaxySimulator_updateParticles(w) == Particles_update(w)

\* render() of the simulator down to the draw of renderStars(): the frame is
\* given up without a particle buffer or without particles; the particles are
\* updated first when their count is not the one last generated.
GalaxySimulator_renderParticles(w) ==
    LET particleUpdateNeeded == w.galaxy.totalStarCount # w.particles.lastParticleCount
        drew == w.particles.particleStorageBuffer # Null /\ w.galaxy.totalStarCount # 0
    IN  [world |-> IF drew /\ particleUpdateNeeded THEN Particles_update(w) ELSE w,
         drew |-> drew,
         particleUpdateNeeded |-> particleUpdateNeeded]

\* Nothing was drawn yet.  slots are the slots of the buffer the draw read,
\* starCount its instance count.
NoDraw ==
    [op |-> "none", drew |-> FALSE, particleUpdateNeeded |-> FALSE, recreated |-> FALSE,
     starCount |-> 0, slots |-> NoParticleData.slots]

ParticleCounts == 0..MaxParticles

\* The constructor: resources.setup() allocates the minimal storage buffer
\* and particles.update() fills the one of the galaxy.
ParticleInit ==
    /\ \E b \in Builds, count \in ParticleCounts :
           Start(Particles_update(ParticleResources_createMinimalStorageBuffer(
               GalaxySimulator_constructor(
                   [FreshWorld(MaxDim, MaxDim) EXCEPT !.build = b,
                                                      !.galaxy.totalStarCount = count]))))
    /\ boundStale = {}
    /\ lastCall = NoDraw
    /\ exercised = "particles"
    /\ lastFrame = NoFrame
    /\ pending = NothingPending

\* The slider of the particle count: the setter, then updateParticles()
ParticleSlider(count) ==
    /\ Commit(GalaxySimulator_updateParticles(
                  Galaxy_set(World, "setTotalStarCount", count).world))
    /\ lastCall' = [NoDraw EXCEPT !.op = "slider"]
    /\ UNCHANGED <<exercised, notCache>>

\* galaxy.setTotalStarCount(count) and nothing else
ParticleSetTotalStarCount(count) ==
    /\ Commit(Galaxy_set(World, "setTotalStarCount", count).world)
    /\ lastCall' = [NoDraw EXCEPT !.op = "setTotalStarCount"]
    /\ UNCHANGED <<exercised, notCache>>

ParticleDrawn(w, r) ==
    /\ Commit(r.world)
    /\ lastCall' = [op |-> "render", drew |-> r.drew,
                    particleUpdateNeeded |-> r.particleUpdateNeeded,
                    recreated |-> r.world.particles.particleStorageBuffer
                                      # w.particles.particleStorageBuffer,
                    starCount |-> r.world.galaxy.totalStarCount,
                    slots |-> ParticleSlots(r.world, r.world.particles.particleStorageBuffer)]
    /\ UNCHANGED <<exercised, notCache>>

\* One frame of the main loop
ParticleFrame == ParticleDrawn(World, GalaxySimulator_renderParticles(World))

ParticleNext ==
    \/ \E count \in ParticleCounts : ParticleSlider(count)
    \/ \E count \in ParticleCounts : ParticleSetTotalStarCount(count)
    \/ ParticleFrame

SpecParticles == ParticleInit /\ [][ParticleNext]_vars

\* C24: whenever the total particle count changes, the whole particle buffer
\* is regenerated before the next frame draws from it: every slot below the
\* instance count of a draw holds a particle generated under that count.
C24_DrawnSlotsRegenerated ==
    (lastCall.op = "render" /\ lastCall.drew) =>
        \A id \in ParticleIds : id < lastCall.starCount => lastCall.slots[id] = lastCall.starCount

\* A frame drew after the count had gone down and the buffer was kept.
C24_Witness ==
    /\ lastCall.op = "render"
    /\ lastCall.drew
    /\ lastCall.particleUpdateNeeded
    /\ ~lastCall.recreated
    /\ lastCall.starCount = 1
    /\ particles.size = MaxParticles * particleDataStride

\* A frame drew after the count had gone up and the buffer was recreated.
C24_WitnessGrown ==
    /\ lastCall.op = "render"
    /\ lastCall.drew
    /\ lastCall.particleUpdateNeeded
    /\ lastCall.recreated
    /\ lastCall.starCount = MaxParticles

\* ------------------------------------------------------------------------
\* The temporal denoiser: forced-reset window and reprojection
\* ------------------------------------------------------------------------

\* this.resetFramesRemaining = 2 of setup() and resetTemporalAccumulation()
ResetFrames == 2

\* CameraManager.setPanX(val), setPanY(val) and setDolly(val) of the camera
\* with pan and dolly; dolly is kept in tenths, between 0.1 and 10.
CameraManager_setPanX(w, val) == [w EXCEPT !.camera.panX = val]

CameraManager_setPanY(w, val) == [w EXCEPT !.camera.panY = val]

CameraManager_setDolly(w, val) == [w EXCEPT !.camera.dolly = Clamp(1, 100, val)]

\* updateParams(): paramsScratch and the writeBuffer() of it
TemporalDenoiseCompute_updateParams(w) ==
    IF ~w.temporalDenoise.paramsBuffer
    THEN w
    ELSE [w EXCEPT
            !.temporalDenoise.params =
                [temporalAlpha |-> IF w.temporalDenoise.resetFramesRemaining > 0
                                   THEN 10
                                   ELSE w.settings.denoiseTemporalAlpha,
                 prevPanX |-> w.temporalDenoise.prevCameraPanX,
                 prevPanY |-> w.temporalDenoise.prevCameraPanY,
                 currPanX |-> w.camera.panX,
                 currPanY |-> w.camera.panY,
                 prevDolly |-> w.temporalDenoise.prevCameraDolly,
                 currDolly |-> w.camera.dolly],
            !.temporalDenoise.resetFramesRemaining = IF @ > 0 THEN @ - 1 ELSE @]

TemporalDenoiseCompute_setup(w) ==
    TemporalDenoiseCompute_updateParams(
        [w EXCEPT !.temporalDenoise.prevCameraPanX = w.camera.panX,
                  !.temporalDenoise.prevCameraPanY = w.camera.panY,
                  !.temporalDenoise.prevCameraDolly = w.camera.dolly,
                  !.temporalDenoise.resetFramesRemaining = ResetFrames,
                  !.temporalDenoise.paramsBuffer = TRUE])

TemporalDenoiseCompute_resetTemporalAccumulation(w) ==
    [w EXCEPT !.temporalDenoise.resetFramesRemaining = ResetFrames]

\* A dispatch() that leaves the camera history as it is.
TemporalDenoiseCompute_dispatch_keepsCameraHistory(w) == w

\* dispatch(): the pass is recorded, then the camera history advances
TemporalDenoiseCompute_dispatch(w) ==
    [w EXCEPT !.temporalDenoise.prevCameraPanX = w.camera.panX,
              !.temporalDenoise.prevCameraPanY = w.camera.panY,
              !.temporalDenoise.prevCameraDolly = w.camera.dolly]

\* uv of main() along one axis for the pixel at index of a texture of the
\* given extent, in steps of 1 / (4 * extent).
denoise_uv(index, extent) == 2 * (2 * index + 1)

\* uvPrevClamped of main() along one axis, in the same steps: panDelta is in
\* halves of the screen, the dollies are in tenths and dollyRatio is
\* currDolly / max(prevDolly, 0.001).
denoise_uvPrevClamped(uv, extent, panDelta, currDolly, prevDolly) ==
    LET center == 2 * extent
        uvFromCenter == uv - center
        scaled == (uvFromCenter - panDelta * 2 * extent) * currDolly
        uvPrev == center + (IF prevDolly > 0
                            THEN scaled \div prevDolly
                            ELSE scaled * 10000)
    IN  Clamp(0, 4 * extent, uvPrev)

\* finalAlpha of main() in eightieths: baseAlpha in tenths, varianceFactor
\* and historyReliability in halves.
\*   alpha = baseAlpha * (0.5 + varianceFactor * 0.5)
\*   finalAlpha = mix(0.3, alpha, historyReliability)
denoise_finalAlpha(baseAlpha, varianceFactor, historyReliability) ==
    12 * (2 - historyReliability) + baseAlpha * (2 + varianceFactor) * historyReliability

\* What main() computes for the pixel (x, y): the history is sampled at
\* uvPrev and weighs 1 - finalAlpha in the output.
denoise_main(w, x, y, varianceFactor, historyReliability) ==
    LET params == w.temporalDenoise.params
    IN  [uv |-> <<denoise_uv(x, w.canvas.width), denoise_uv(y, w.canvas.height)>>,
         uvPrev |-> <<denoise_uvPrevClamped(denoise_uv(x, w.canvas.width), w.canvas.width,
                                            params.prevPanX - params.currPanX,
                                            params.currDolly, params.prevDolly),
                      denoise_uvPrevClamped(denoise_uv(y, w.canvas.height), w.canvas.height,
                                            params.currPanY - params.prevPanY,
                                            params.currDolly, params.prevDolly)>>,
         finalAlpha |-> denoise_finalAlpha(params.temporalAlpha, varianceFactor,
                                           historyReliability)]

\* The "force temporal reset" request of the simulator that owns the
\* denoiser, on camera motion and on a preset switch.
GalaxySimulator_forceTemporalReset(w) ==
    TemporalDenoiseCompute_resetTemporalAccumulation(w)

\* The denoising of one frame by that simulator.
GalaxySimulator_denoiseFrame(w) ==
    TemporalDenoiseCompute_dispatch(TemporalDenoiseCompute_updateParams(w))

\* The pans and dollies the pointer gives the camera.
PanValues == {0, 1}

DollyValues == {10, 20}

\* The configured temporal alphas, in tenths.
AlphaValues == {1, 5}

\* varianceFactor = 1 / (1 + variance * 100) and historyReliability =
\* exp(-clampDist * 2) are in (0, 1]; in halves.
FactorValues == {1, 2}

\* What the specification remembers between frames: the camera of the last
\* dispatch, whether setup() ran since, and the frames denoised since the
\* last reset request, counted up to ResetFrames + 1.
NoHistory == [camera |-> NoCamera, setupSince |-> TRUE, sinceReset |-> 0]

NoDenoising ==
    [op |-> "none", uv |-> <<0, 0>>, uvPrev |-> <<0, 0>>, finalAlpha |-> 0,
     temporalAlpha |-> 0, sameCamera |-> FALSE, sinceReset |-> 0]

DenoiseInit ==
    /\ \E width \in Dims :
           Start(TemporalDenoiseCompute_setup(
               GalaxySimulator_constructor(FreshWorld(width, width))))
    /\ boundStale = {}
    /\ lastCall = NoDenoising
    /\ exercised = "denoise"
    /\ lastFrame = NoHistory
    /\ pending = NothingPending

\* A step that ends in world w and asked for a temporal reset.
DenoiseReset(w, setup) ==
    /\ Commit(w)
    /\ lastCall' = [NoDenoising EXCEPT !.op = "reset"]
    /\ lastFrame' = [lastFrame EXCEPT !.sinceReset = 0,
                                      !.setupSince = @ \/ setup]
    /\ UNCHANGED <<boundStale, exercised, pending>>

\* A drag along the diagonal: setPanX(pan), then setPanY(pan)
DenoiseCameraPan(pan) ==
    DenoiseReset(GalaxySimulator_forceTemporalReset(
                     CameraManager_setPanY(GalaxySimulator_forceTemporalReset(
                         CameraManager_setPanX(World, pan)), pan)), FALSE)

DenoiseCameraDolly(dolly) ==
    DenoiseReset(GalaxySimulator_forceTemporalReset(
                              CameraManager_setDolly(World, dolly)), FALSE)

DenoiseSelectPreset(alpha) ==
    DenoiseReset(GalaxySimulator_forceTemporalReset(
                     [World EXCEPT !.settings.denoiseTemporalAlpha = alpha]), FALSE)

DenoiseResize(width) ==
    DenoiseReset(TemporalDenoiseCompute_setup(
                     [World EXCEPT !.canvas = [width |-> width, height |-> width]]), TRUE)

\* The slider of the temporal alpha
DenoiseSetAlpha(alpha) ==
    /\ Commit(Galaxy_set(World, "setDenoiseTemporalAlpha", alpha).world)
    /\ lastCall' = [NoDenoising EXCEPT !.op = "setDenoiseTemporalAlpha"]
    /\ UNCHANGED <<boundStale, exercised, lastFrame, pending>>

\* One frame; pixel is what main() computed for the invocation observed.
DenoiseFrame(w, pixel) ==
    /\ Commit(w)
    /\ lastCall' = [op |-> "frame", uv |-> pixel.uv, uvPrev |-> pixel.uvPrev,
                    finalAlpha |-> pixel.finalAlpha,
                    temporalAlpha |-> w.temporalDenoise.params.temporalAlpha,
                    sameCamera |-> camera = lastFrame.camera /\ ~lastFrame.setupSince,
                    sinceReset |-> Min(lastFrame.sinceReset + 1, ResetFrames + 1)]
    /\ lastFrame' = [camera |-> camera, setupSince |-> FALSE,
                     sinceReset |-> Min(lastFrame.sinceReset + 1, ResetFrames + 1)]
    /\ UNCHANGED <<boundStale, exercised, pending>>

DenoiseObserved(x, y, varianceFactor, historyReliability) ==
    DenoiseFrame(GalaxySimulator_denoiseFrame(World),
                 denoise_main(TemporalDenoiseCompute_updateParams(World), x, y,
                              varianceFactor, historyReliability))

DenoiseNext ==
    \/ \E pan \in PanValues : DenoiseCameraPan(pan)
    \/ \E dolly \in DollyValues : DenoiseCameraDolly(dolly)
    \/ \E alpha \in AlphaValues : DenoiseSelectPreset(alpha)
    \/ \E width \in Dims : DenoiseResize(width)
    \/ \E alpha \in AlphaValues : DenoiseSetAlpha(alpha)
    \/ \E x \in 0..(canvas.width - 1), y \in 0..(canvas.height - 1) :
           \E varianceFactor, historyReliability \in FactorValues :
               DenoiseObserved(x, y, varianceFactor, historyReliability)

SpecDenoise == DenoiseInit /\ [][DenoiseNext]_vars

\* C25: after any camera motion, preset change or resize the denoiser
\* discards history for a short window of frames: in the first frame after
\* the request the output is 100% current frame (finalAlpha is 1, the
\* history weighs nothing).
C25_HistoryDiscardedAfterReset ==
    (lastCall.op = "frame" /\ lastCall.sinceReset = 1) => lastCall.finalAlpha = 80

\* C26: in a frame whose camera pan and dolly are those of the frame before
\* it, the history is sampled at the pixel's own uv (the reprojection is the
\* identity).
C26_IdentityReprojection ==
    (lastCall.op = "frame" /\ lastCall.sameCamera) => lastCall.uvPrev = lastCall.uv

\* Two consecutive frames of a camera that was panned and dollied away from
\* its rest position, on a pixel off the centre of the texture.
C26_Witness ==
    /\ lastCall.op = "frame"
    /\ lastCall.sameCamera
    /\ camera.panX # NoCamera.panX
    /\ camera.dolly # NoCamera.dolly
    /\ lastCall.uv = <<2, 6>>
    /\ lastCall.uvPrev = lastCall.uv

\* ------------------------------------------------------------------------
\* Overdraw counting and the overdraw debug mode
\* ------------------------------------------------------------------------

\* this.galaxy().maxOverdraw >= 4096, as lastOverdrawDisabled stores it
overdrawDisabled(w) == IF w.settings.maxOverdraw >= 4096 THEN "true" ELSE "false"

CountOverdrawResources_createOverdrawCountBuffer(w) ==
    [w EXCEPT !.overdraw.overdrawCountBuffer = TRUE,
              !.overdraw.events = @ \cup {"createOverdrawCountBuffer"}]

\* createClearOverdrawBindGroup(): whatever it binds is created first
CountOverdrawResources_createClearOverdrawBindGroup(w) ==
    [Ensure(w, LAMBDA v : ~v.overdraw.overdrawCountBuffer,
            CountOverdrawResources_createOverdrawCountBuffer)
        EXCEPT !.overdraw.clearOverdrawPipeline = TRUE,
               !.overdraw.clearOverdrawDimensionsBuffer = TRUE,
               !.overdraw.clearOverdrawBindGroup = TRUE]

\* A setup() that does not look at the sentinel.
CountOverdrawResources_setup_ignoresSentinel(w) ==
    [CountOverdrawResources_createClearOverdrawBindGroup(
         Ensure(w, LAMBDA v : v.canvas # v.overdraw.lastDims \/ ~v.overdraw.overdrawCountBuffer,
                CountOverdrawResources_createOverdrawCountBuffer))
        EXCEPT !.overdraw.lastDims = w.canvas]

CountOverdrawResources_setup(w) ==
    IF w.settings.maxOverdraw >= 4096
    THEN w
    ELSE [CountOverdrawResources_createClearOverdrawBindGroup(
              Ensure(w, LAMBDA v : v.canvas # v.overdraw.lastDims \/ ~v.overdraw.overdrawCountBuffer,
                     CountOverdrawResources_createOverdrawCountBuffer))
             EXCEPT !.overdraw.lastDims = w.canvas]

\* clear(): the compute pass that zeroes the count buffer
CountOverdrawResources_clear(w) ==
    IF w.settings.maxOverdraw >= 4096
    THEN w
    ELSE [Ensure([w EXCEPT !.overdraw.clearOverdrawPipeline = TRUE],
                 LAMBDA v : ~v.overdraw.clearOverdrawBindGroup,
                 CountOverdrawResources_createClearOverdrawBindGroup)
             EXCEPT !.overdraw.clearOverdrawDimensionsBuffer = TRUE,
                    !.overdraw.events = @ \cup {"clear"}]

CountOverdrawResources_destroy(w) ==
    [w EXCEPT !.overdraw.overdrawCountBuffer = FALSE,
              !.overdraw.clearOverdrawDimensionsBuffer = FALSE,
              !.overdraw.clearOverdrawPipeline = FALSE,
              !.overdraw.clearOverdrawBindGroup = FALSE]

\* setup() of DrawOverdrawResources: the debug pipeline needs the pipeline
\* layout of the particles.
DrawOverdrawResources_setup(w) ==
    IF ~w.overdraw.overdrawPipeline /\ w.overdraw.particlePipelineLayout
    THEN [w EXCEPT !.overdraw.overdrawPipeline = TRUE]
    ELSE w

DrawOverdrawResources_destroy(w) == [w EXCEPT !.overdraw.overdrawPipeline = FALSE]

\* createParticleBindGroup(countOverdrawResources, width, height)
ParticleResources_createParticleBindGroup(w) ==
    [Ensure(w, LAMBDA v : ~v.overdraw.overdrawCountBuffer,
            CountOverdrawResources_createOverdrawCountBuffer)
        EXCEPT !.overdraw.particleBindGroup = TRUE]

\* The bind group setup() of ParticleResources leaves, after
\* countOverdrawResources.setup(): w0 is the world setup() was entered with.
ParticleResources_chooseBindGroup(w, w0, storageChanged) ==
    IF overdrawDisabled(w) = "true"
    THEN [w EXCEPT !.overdraw.particleBindGroup = FALSE,
                   !.overdraw.particleBindGroupNoOverdraw = TRUE]
    ELSE IF \/ w0.overdraw.lastOverdrawDisabled # overdrawDisabled(w)
            \/ w0.canvas # w0.overdraw.particleLastDims
            \/ storageChanged
            \/ ~w.overdraw.particleBindGroup
         THEN [ParticleResources_createParticleBindGroup(w)
                  EXCEPT !.overdraw.particleBindGroupNoOverdraw = FALSE]
         ELSE [w EXCEPT !.overdraw.particleBindGroupNoOverdraw = FALSE]

\* ParticleResources.setup() of the generation with a setup()
ParticleResources_setup(w) ==
    Then(Ensure(w, LAMBDA v : v.particles.particleStorageBuffer = Null,
                ParticleResources_createMinimalStorageBuffer),
         LAMBDA w1 :
             [ParticleResources_chooseBindGroup(
                  CountOverdrawResources_setup(
                      [w1 EXCEPT !.overdraw.particlePipelineLayout = TRUE]),
                  w,
                  w1.particles.particleStorageBuffer # w.overdraw.lastParticleStorageBuffer)
                 EXCEPT !.overdraw.particleLastDims = w.canvas,
                        !.overdraw.lastOverdrawDisabled = overdrawDisabled(w),
                        !.overdraw.lastParticleStorageBuffer =
                            w1.particles.particleStorageBuffer])

ParticleRenderer_clearOverdrawBuffer(w) ==
    IF w.settings.maxOverdraw >= 4096
    THEN w
    ELSE CountOverdrawResources_clear(CountOverdrawResources_setup(w))

\* The pipeline render() sets
ParticleRenderer_pipeline(w) ==
    IF w.settings.overdrawDebug /\ ~(w.settings.maxOverdraw >= 4096)
    THEN "overdrawPipeline"
    ELSE IF w.settings.maxOverdraw >= 4096
         THEN "particlePipelineNoOverdraw"
         ELSE "particlePipeline"

\* render(passEncoder, starCount) of ParticleRenderer
ParticleRenderer_renderOverdraw(w) ==
    Then(ParticleResources_setup(w),
         LAMBDA v : [v EXCEPT !.overdraw.events = @ \cup {ParticleRenderer_pipeline(v)}])

\* The part of ResourceManager.setup() that is about the particles and the
\* overdraw; it shares no state with the rest of it, which is
\* ResourceManager_setup.
ResourceManager_setupOverdraw(w) ==
    DrawOverdrawResources_setup(
        CountOverdrawResources_setup(
            DrawOverdrawResources_setup(ParticleResources_setup(w))))

ResourceManager_handleMaxOverdrawChange(w) ==
    accumulationResources_updateWeightsBuffer(
        ParticleResources_setup(
            ParticleRenderer_allocateEmptyBuffer(
                IF w.settings.maxOverdraw >= 4096
                THEN DrawOverdrawResources_destroy(CountOverdrawResources_destroy(w))
                ELSE DrawOverdrawResources_setup(CountOverdrawResources_setup(w)),
                w.galaxy.totalStarCount)))

\* The limits the slider and the presets give: 64 and the sentinel; 5000 is
\* above what setMaxOverdraw() keeps.
OverdrawLimits == {64, 4096}

NoOverdrawStep == [op |-> "none"]

OverdrawInit ==
    /\ \E limit \in OverdrawLimits, debug \in BOOLEAN, width \in Dims :
           Start(ResourceManager_setupOverdraw(
               [GalaxySimulator_constructor(FreshWorld(width, width))
                   EXCEPT !.settings.maxOverdraw = limit,
                          !.settings.overdrawDebug = debug]))
    /\ boundStale = {}
    /\ lastCall = NoOverdrawStep
    /\ exercised = "overdraw"
    /\ lastFrame = NoFrame
    /\ pending = NothingPending

OverdrawStep(op, w) ==
    /\ Commit(w)
    /\ lastCall' = [op |-> op]
    /\ UNCHANGED <<boundStale, exercised, lastFrame, pending>>

\* The fired callback of setOverdrawDebug sets every resource up again.
OverdrawSetDebug(w, enabled) ==
    IF w.settings.overdrawDebug = enabled
    THEN w
    ELSE ResourceManager_setupOverdraw(Galaxy_set(w, "setOverdrawDebug", enabled).world)

\* applyOverdrawDisabledUI() of the max overdraw slider
OverdrawSlider(limit) ==
    OverdrawStep("slider",
        Then(ResourceManager_handleMaxOverdrawChange(
                 Galaxy_set(World, "setMaxOverdraw", limit).world),
             LAMBDA v : IF limit = 4096 THEN OverdrawSetDebug(v, FALSE) ELSE v))

\* galaxy.setMaxOverdraw() alone, as a preset or a script does
OverdrawSetMaxOverdraw(limit) ==
    OverdrawStep("setMaxOverdraw", Galaxy_set(World, "setMaxOverdraw", limit).world)

OverdrawCheckbox(enabled) ==
    OverdrawStep("setOverdrawDebug", OverdrawSetDebug(World, enabled))

\* A resize of a square canvas
OverdrawResize(width) ==
    OverdrawStep("resize",
        ResourceManager_setupOverdraw(GalaxySimulator_resize(World, width, width)))

\* The particle pass of a frame
OverdrawFrame ==
    OverdrawStep("frame",
        ParticleRenderer_renderOverdraw(ParticleRenderer_clearOverdrawBuffer(World)))

OverdrawNext ==
    \/ \E limit \in OverdrawLimits : OverdrawSlider(limit)
    \/ \E limit \in OverdrawLimits \cup {5000} : OverdrawSetMaxOverdraw(limit)
    \/ \E enabled \in BOOLEAN : OverdrawCheckbox(enabled)
    \/ \E width \in Dims : OverdrawResize(width)
    \/ OverdrawFrame

SpecOverdraw == OverdrawInit /\ [][OverdrawNext]_vars

\* C27: while max overdraw is at its disabled sentinel the overdraw debug
\* mode and its count buffer are skipped: no step that ends at the sentinel
\* selects the debug pipeline, creates the count buffer or clears it.
C27_OverdrawSkippedAtSentinel ==
    settings.maxOverdraw >= 4096 =>
        overdraw.events \cap {"overdrawPipeline", "createOverdrawCountBuffer", "clear"} = {}

\* A frame drawn at the sentinel with the debug mode switched on and a count
\* buffer left from before.
C27_Witness ==
    /\ lastCall.op = "frame"
    /\ settings.maxOverdraw >= 4096
    /\ settings.overdrawDebug
    /\ overdraw.overdrawCountBuffer
    /\ overdraw.events = {"particlePipelineNoOverdraw"}

\* ------------------------------------------------------------------------
\* The frame-rate limiter
\* ------------------------------------------------------------------------

\* deltaTime = 16.67 of the first call, in hundredths of a millisecond
firstDeltaTime == 1667

\* maxFrameRate >= 120 is the unlocked mode
unlockedFrameRate == 120

\* 1000 ms in hundredths of a millisecond
second == 100000

Math_max(a, b) == IF a >= b THEN a ELSE b

\* A shouldRenderFrame that does not note the frames it lets through.
FPSManager_shouldRenderFrame_forgetsRender(w, currentTime, maxFrameRate) ==
    LET deltaTime == IF w.fps.lastRenderTime = 0
                     THEN firstDeltaTime
                     ELSE currentTime - w.fps.lastRenderTime
        isUnlocked == maxFrameRate >= unlockedFrameRate
        targetFrameTime == IF isUnlocked
                           THEN w.fps.targetFrameTime
                           ELSE Clamp(1, 119, maxFrameRate)
        maxDeltaTime == IF isUnlocked
                        THEN (second \div 10) * targetFrameTime
                        ELSE Math_max((second \div 10) * targetFrameTime, 2 * second)
        shouldRender == \/ isUnlocked
                        \/ Min(deltaTime * targetFrameTime, maxDeltaTime) >= second
    IN  [world |-> [w EXCEPT !.fps.targetFrameTime = targetFrameTime,
                             !.fps.lastRenderTime =
                                 IF w.fps.lastRenderTime = 0 THEN currentTime ELSE @],
         shouldRender |-> shouldRender]

\* FPSManager.shouldRenderFrame(currentTime, maxFrameRate): the world after
\* it and shouldRender.  A frame time 1000 / n is kept as n, and deltaTime
\* is compared after both sides are multiplied by n.
FPSManager_shouldRenderFrame(w, currentTime, maxFrameRate) ==
    LET deltaTime == IF w.fps.lastRenderTime = 0
                     THEN firstDeltaTime
                     ELSE currentTime - w.fps.lastRenderTime
        isUnlocked == maxFrameRate >= unlockedFrameRate
        targetFrameTime == IF isUnlocked
                           THEN w.fps.targetFrameTime
                           ELSE Clamp(1, 119, maxFrameRate)
        maxDeltaTime == IF isUnlocked
                        THEN (second \div 10) * targetFrameTime
                        ELSE Math_max((second \div 10) * targetFrameTime, 2 * second)
        shouldRender == \/ isUnlocked
                        \/ Min(deltaTime * targetFrameTime, maxDeltaTime) >= second
    IN  [world |-> [w EXCEPT !.fps.targetFrameTime = targetFrameTime,
                             !.fps.lastRenderTime =
                                 IF shouldRender \/ w.fps.lastRenderTime = 0
                                 THEN currentTime
                                 ELSE @],
         shouldRender |-> shouldRender]

\* mainLoop() at the time the clock of w shows: the frame is made only when
\* the limiter says so.
GalaxySimulator_mainLoop(w) ==
    Then(FPSManager_shouldRenderFrame(w, w.fps.clock, w.settings.maxFrameRate),
         LAMBDA r : [world |-> IF r.shouldRender
                               THEN GalaxySimulator_immediateRender(r.world).world
                               ELSE r.world,
                     shouldRender |-> r.shouldRender])

\* The time between two display refreshes: 120 Hz and 60 Hz.
RefreshIntervals == {833, 1667}

\* The clock stops here.
MaxTime == 7000

\* What the frame rate slider and a script give setMaxFrameRate.
FrameRates == {0, 30, 60, 200}

\* The time of the last frame the main loop made, 0 when it made none.
NoLimiterFrame == [renderedAt |-> 0]

NoTick ==
    [op |-> "none", shouldRender |-> FALSE, currentTime |-> 0, maxFrameRate |-> 0,
     lastRenderedAt |-> 0, frameWork |-> FALSE]

LimiterInit ==
    /\ \E b \in Builds :
           Start([GalaxySimulator_constructor(
                      [FreshWorld(MaxDim, MaxDim) EXCEPT !.build = b])
                     EXCEPT !.fps.clock = 1])
    /\ boundStale = {}
    /\ lastCall = NoTick
    /\ exercised = "limiter"
    /\ lastFrame = NoLimiterFrame
    /\ pending = NothingPending

\* The display refreshes interval after the clock's time and calls mainLoop().
LimiterOutcome(w, r) ==
    /\ Commit(r.world)
    /\ lastCall' = [op |-> "mainLoop", shouldRender |-> r.shouldRender,
                    currentTime |-> w.fps.clock,
                    maxFrameRate |-> w.settings.maxFrameRate,
                    lastRenderedAt |-> lastFrame.renderedAt,
                    frameWork |-> r.world.gpu # w.gpu \/ r.world.galaxy # w.galaxy]
    /\ lastFrame' = IF r.shouldRender
                    THEN [renderedAt |-> w.fps.clock]
                    ELSE lastFrame
    /\ UNCHANGED <<boundStale, exercised, pending>>

LimiterWorld(w) == LimiterOutcome(w, GalaxySimulator_mainLoop(w))

LimiterTick(interval) ==
    /\ fps.clock + interval <= MaxTime
    /\ LimiterWorld([World EXCEPT !.fps.clock = @ + interval])

LimiterSetMaxFrameRate(val) ==
    /\ Commit(Galaxy_set(World, "setMaxFrameRate", val).world)
    /\ lastCall' = [NoTick EXCEPT !.op = "setMaxFrameRate"]
    /\ UNCHANGED <<boundStale, exercised, lastFrame, pending>>

LimiterNext ==
    \/ \E interval \in RefreshIntervals : LimiterTick(interval)
    \/ \E val \in FrameRates : LimiterSetMaxFrameRate(val)

SpecLimiter == LimiterInit /\ [][LimiterNext]_vars

Object_assign(target, source) ==
    [key \in DOMAIN target \cup DOMAIN source |->
        IF key \in DOMAIN source THEN source[key] ELSE target[key]]

\* const { a, b, ...rest } = object
Object_rest(object, keys) == [key \in DOMAIN object \ keys |-> object[key]]

DEFAULT_GALAXY_VALUES ==
    [time |-> 0, exposure |-> 21, overdrawDebug |-> FALSE]

\* A toPreset() that keeps the time.
Galaxy_toPreset_keepsTime(self) == Object_rest(self, {"callbacks", "cachedGpuArray"})

Galaxy_toPreset(self) ==
    Object_assign(Object_rest(self, {"time", "callbacks", "cachedGpuArray"}),
                  [time |-> 0])

\* new Galaxy(props, callbacks)
Galaxy_constructor(props, callbacks) ==
    [Object_assign(Object_assign(Galaxy_fields, DEFAULT_GALAXY_VALUES), props)
        EXCEPT !.callbacks = callbacks]

\* JSON.parse(JSON.stringify(preset)): a property that is undefined is
\* left out, a typed array comes back as a plain object and an object of
\* functions as an empty one; numbers, booleans and strings come back as
\* they were.
JSON_value(key, value) ==
    IF key = "cachedGpuArray" THEN "Object"
    ELSE IF key = "callbacks" THEN "{}"
    ELSE value

JSON_roundTrip(preset) ==
    [key \in {k \in DOMAIN preset : k \notin {"callbacks", "cachedGpuArray"}
                                     \/ preset[k] # "undefined"} |->
        JSON_value(key, preset[key])]

\* saveGalaxyPreset(name, galaxy) with a Galaxy: the presets are read from
\* localStorage and written back to it.
saveGalaxyPreset(w, name) ==
    [w EXCEPT !.presets.stored =
        Object_assign(@, [n \in {name} |-> JSON_roundTrip(Galaxy_toPreset(w.presets.galaxy))])]

\* new Galaxy(getGalaxyPreset(name), callbacks) as getDefaultGalaxyPreset()
\* makes it
Galaxy_fromStored(w, name) ==
    [w EXCEPT !.presets.galaxy =
        Galaxy_constructor(JSON_roundTrip(w.presets.stored[name]), "getGalaxyCallbacks")]

\* new Galaxy(galaxy.toPreset(), callbacks)
Galaxy_fromPreset(w) ==
    [w EXCEPT !.presets.galaxy =
        Galaxy_constructor(Galaxy_toPreset(w.presets.galaxy), "getGalaxyCallbacks")]

\* advanceTime(deltaTime) of a frame, in steps of deltaTime * timeScale
Galaxy_advanceTime(w) == [w EXCEPT !.presets.galaxy.time = @ + 1]

\* A setter of the galaxy, or the assignment of a field it has no setter for
Galaxy_setField(w, field, val) == [w EXCEPT !.presets.galaxy[field] = val]

ParameterFields == {"exposure", "overdrawDebug", "hdrMode"}

FieldValues(field) ==
    CASE field = "exposure" -> {10, 21}
      [] field = "overdrawDebug" -> BOOLEAN
      [] field = "hdrMode" -> {"standard", "extended"}

\* The name presets are saved under; "Milky Way" is the preset of the
\* default store.
PresetNames == {"Draft"}

\* The frames whose time the specification follows.
MaxGalaxyTime == 1

\* What is remembered of the galaxies that were saved: the properties each
\* stored preset was made from.
NothingSaved == <<>>

NoPresetStep == [op |-> "none", roundTrip |-> FALSE, from |-> Galaxy_fields]

PresetInit ==
    /\ Start([FreshWorld(MaxDim, MaxDim) EXCEPT
                 !.presets = [galaxy |-> Galaxy_constructor(DEFAULT_GALAXY_VALUES,
                                                            "getGalaxyCallbacks"),
                              stored |-> [n \in {"Milky Way"} |-> DEFAULT_GALAXY_VALUES]]])
    /\ boundStale = {}
    /\ lastCall = NoPresetStep
    /\ exercised = "presets"
    /\ lastFrame = NoFrame
    /\ pending = NothingSaved

PresetStep(op, w, roundTrip, from, saved) ==
    /\ Commit(w)
    /\ lastCall' = [op |-> op, roundTrip |-> roundTrip, from |-> from]
    /\ pending' = saved
    /\ UNCHANGED <<boundStale, exercised, lastFrame>>

PresetSetField(field, val) ==
    PresetStep("set", Galaxy_setField(World, field, val), FALSE, Galaxy_fields, pending)

PresetAdvanceTime ==
    /\ presets.galaxy.time < MaxGalaxyTime
    /\ PresetStep("advanceTime", Galaxy_advanceTime(World), FALSE, Galaxy_fields, pending)

PresetSave(name) ==
    PresetStep("save", saveGalaxyPreset(World, name), FALSE, Galaxy_fields,
               Object_assign(pending, [n \in {name} |-> presets.galaxy]))

\* The page is loaded again with the preset name first in the store.
PresetReload(name) ==
    /\ name \in DOMAIN presets.stored
    /\ PresetStep("construct", Galaxy_fromStored(World, name),
                  name \in DOMAIN pending,
                  IF name \in DOMAIN pending THEN pending[name] ELSE Galaxy_fields,
                  pending)

PresetClone ==
    PresetStep("construct", Galaxy_fromPreset(World), TRUE, presets.galaxy, pending)

PresetNext ==
    \/ \E field \in ParameterFields : \E val \in FieldValues(field) : PresetSetField(field, val)
    \/ PresetAdvanceTime
    \/ \E name \in PresetNames : PresetSave(name)
    \/ \E name \in PresetNames \cup {"Milky Way"} : PresetReload(name)
    \/ PresetClone

SpecPresets == PresetInit /\ [][PresetNext]_vars

\* C29: a galaxy constructed from the preset a galaxy was serialized to has
\* every field of that galaxy with its value, except time, which is 0.
C29_PresetRoundTrip ==
    (lastCall.op = "construct" /\ lastCall.roundTrip) =>
        /\ DOMAIN presets.galaxy = DOMAIN lastCall.from
        /\ \A field \in DOMAIN lastCall.from \ {"time", "callbacks"} :
               presets.galaxy[field] = lastCall.from[field]
        /\ presets.galaxy.time = 0

\* A galaxy constructed from a stored preset that was saved from a galaxy
\* with every parameter changed and the time advanced.
C29_Witness ==
    /\ lastCall.op = "construct"
    /\ lastCall.roundTrip
    /\ lastCall.from.time = MaxGalaxyTime
    /\ "Draft" \in DOMAIN presets.stored
    /\ presets.galaxy = [lastCall.from EXCEPT !.time = 0]
    /\ presets.galaxy.exposure # DEFAULT_GALAXY_VALUES.exposure
    /\ presets.galaxy.overdrawDebug
    /\ presets.galaxy.hdrMode = "extended"

\* ------------------------------------------------------------------------
\* The write index of the accumulation ring
\* ------------------------------------------------------------------------

\* accumWriteIndex of the accumulation resources of the build
accumWriteIndex == accumulationResources_accumWriteIndex(World)

\* C30: the accumulation write index is always in 0..15, advances by exactly
\* one (mod 16) in every step that renders a frame successfully, and stays
\* as it is in a step whose frame fails.
C30_IndexAdvancesByOne ==
    /\ accumWriteIndex \in 0..(LayerCount - 1)
    /\ [][/\ accumWriteIndex' \in 0..(LayerCount - 1)
          /\ pending'.frames = pending.frames + 1 =>
                 accumWriteIndex' = IF lastFrame'.rendered
                                     THEN (accumWriteIndex + 1) % LayerCount
                                     ELSE accumWriteIndex]_vars

\* C30 (amended): the write index is always in 0..15; a step that renders a
\* frame successfully leaves it one past (mod 16) the layer the frame was
\* rendered into, which is the layer the index named before the step, or
\* layer 0 when the step restarted the ring; a step whose frame fails
\* leaves the index as it was; a step without a frame leaves it as it was or
\* restarts the ring at 0, and never advances it.
C30_IndexFollowsRenderedLayer ==
    /\ accumWriteIndex \in 0..(LayerCount - 1)
    /\ [][/\ accumWriteIndex' \in 0..(LayerCount - 1)
          /\ IF pending'.frames = pending.frames + 1 /\ lastFrame'.rendered
             THEN /\ gpu'.written # <<>>
                  /\ Head(gpu'.written) \in {accumWriteIndex, 0}
                  /\ accumWriteIndex' = (Head(gpu'.written) + 1) % LayerCount
             ELSE IF pending'.frames = pending.frames + 1
                  THEN accumWriteIndex' = accumWriteIndex
                  ELSE accumWriteIndex' \in {accumWriteIndex, 0}]_vars

\* The second step of the run was a preset selection whose frame succeeded
\* after a first frame that succeeded too: the index was 1, the selection
\* restarted the ring, the frame was rendered into layer 0 and the index is
\* 1 again.
C30_Witness ==
    /\ lastFrame.op = "selectPreset"
    /\ lastFrame.rendered
    /\ ~lastFrame.afterFailure
    /\ pending.frames = 2
    /\ pending.handlers = 1
    /\ gpu.written = <<0>>
    /\ accumWriteIndex = 1

\* ------------------------------------------------------------------------
\* The frames-since-clear counter
\* ------------------------------------------------------------------------

\* C31: the frames-since-clear counter equals min(16, number of frames
\* rendered into a layer since the layers were last cleared).
C31_CounterCountsRenderedFrames ==
    accumulator.framesSinceBufferClear = Min(LayerCount, Len(gpu.written))

\* ------------------------------------------------------------------------
\* The accumulation depth and the temporal frame counter under any
\* configured value of temporalAccumulation
\* ------------------------------------------------------------------------

\* Values galaxy.temporalAccumulation is configured to: by the constructor's
\* preset and by updateKey("temporalAccumulation", value).
ConfiguredDepths == {1, 2, 3, 4, 20}

DepthInit ==
    /\ \E b \in Builds, depth \in ConfiguredDepths :
           Start(GalaxySimulator_constructor(
               [FreshWorld(MaxDim, MaxDim) EXCEPT
                   !.build = b, !.galaxy.temporalAccumulation = depth]))
    /\ boundStale = {}
    /\ lastCall = NoCall
    /\ exercised = "none"
    /\ lastFrame = NoFrame
    /\ pending = NothingPending

DepthNext ==
    \/ MainLoop(TRUE)
    \/ SelectPreset([totalStarCount |-> 1])
    \/ \E value \in ConfiguredDepths : SetTemporalAccumulation(value)
    \/ \E val \in {0, 1} : SetTotalStarCount(val)

SpecDepth == DepthInit /\ [][DepthNext]_vars

\* C32: after every accumulator update the temporal frame counter is in
\* 0..N-1, N being the accumulator's current depth: in every state a frame
\* attempt has left (the attempt ran update()), and in the world update()
\* would return if the next frame attempt started now.
C32_TemporalFrameWithinDepth ==
    /\ lastFrame.op # "none" =>
           galaxy.temporalFrame \in 0..(accumulator.lastTemporalAccumulation - 1)
    /\ LET u == GalaxySimulator_update(
                    AccumulationManager_beginOneFrameOverrideIfRequested(World))
       IN  u.galaxy.temporalFrame \in 0..(u.accumulator.lastTemporalAccumulation - 1)

\* A frame under the one-frame override that followed a change of the
\* configured depth to 3: the depth is 4 and the counter is 1.
C32_Witness ==
    /\ lastFrame.rendered
    /\ lastFrame.override
    /\ "depth" \in lastFrame.after
    /\ galaxy.temporalAccumulation = 4
    /\ accumulator.lastTemporalAccumulation = 4
    /\ galaxy.temporalFrame = 1

\* C33: the accumulator's current depth is always one of 1, 2, 4, 8, 16.
C33_DepthIsPowerOfTwo == accumulator.lastTemporalAccumulation \in Depths

\* ------------------------------------------------------------------------
\* Temporal slices: the particle uniform block of a frame and the dust it
\* draws
\* ------------------------------------------------------------------------

\* ParticleRenderer.updateUniforms(): of the block it writes, the accumulation
\* depth (the override-aware effective depth) and the temporal frame.
ParticleRenderer_updateUniforms_configuredDepth(w) ==
    [temporalAccumulation |-> w.galaxy.temporalAccumulation,
     temporalFrame |-> w.galaxy.temporalFrame]

ParticleRenderer_updateUniforms(w) ==
    [temporalAccumulation |-> AccumulationManager_getEffectiveTemporalAccumulation(w),
     temporalFrame |-> w.galaxy.temporalFrame]

\* The block the draw of a frame that starts in w reads: update() writes it
\* after accumulator.update(), under the override the frame has begun.
GalaxySimulator_frameUniforms(w) ==
    ParticleRenderer_updateUniforms(
        GalaxySimulator_update(AccumulationManager_beginOneFrameOverrideIfRequested(w)))

\* particle.vert.wgsl main(): a dust particle whose hash falls into the given
\* slice is drawn unless the depth is over 1 and the slice is not the frame's.
vertex_drawsDust(uniforms, slice) ==
    ~(uniforms.temporalAccumulation > 1 /\ slice # uniforms.temporalFrame)

\* Frame attempts of a run of SpecSlices.
MaxSliceFrames == 7

SliceDepths == {1, 2, 3, 4}

NoSliceFrame ==
    [op |-> "none", rendered |-> FALSE, effective |-> 0,
     uniforms |-> [temporalAccumulation |-> 0, temporalFrame |-> 0],
     slices |-> <<>>, owed |-> FALSE, afterFailure |-> FALSE]

\* The layers were cleared between the worlds w and v.
ClearedBetween(w, v) ==
    \/ v.gpu.lastClear # w.gpu.lastClear
    \/ \E k \in DOMAIN w.gpu.written :
           \A j \in DOMAIN v.gpu.written : v.gpu.written[j] # w.gpu.written[k]

\* The last n elements of a sequence.
LastOf(seq, n) ==
    IF Len(seq) <= n THEN seq ELSE SubSeq(seq, Len(seq) - n + 1, Len(seq))

\* The blocks of the rendered frames since the last clear, change of depth
\* or frame of another depth, at most as many as the depth.
SliceWindow(r, uniforms) ==
    IF ClearedBetween(World, r.world) THEN IF r.success THEN <<uniforms>> ELSE <<>>
    ELSE IF ~r.success THEN lastFrame.slices
    ELSE IF /\ lastFrame.slices # <<>>
            /\ lastFrame.slices[1].temporalAccumulation # uniforms.temporalAccumulation
         THEN <<uniforms>>
    ELSE LastOf(Append(lastFrame.slices, uniforms), uniforms.temporalAccumulation)

SliceInit ==
    /\ \E b \in Builds, depth \in SliceDepths :
           Start(GalaxySimulator_constructor(
               [FreshWorld(MaxDim, MaxDim) EXCEPT
                   !.build = b, !.galaxy.temporalAccumulation = depth]))
    /\ boundStale = {}
    /\ lastCall = NoCall
    /\ exercised = "none"
    /\ lastFrame = NoSliceFrame
    /\ pending = NothingPending

\* A full render is owed in the world w: requestFullRenderNextFrame() was
\* called after the last rendered frame; either the request is still stored
\* in w, or a frame attempt that failed has taken it.
FullRenderOwed(w) ==
    "fullRender" \in pending.events \/ w.accumulator.oneFrameOverrideRequested

\* A frame attempt r whose draw read the block uniforms.
SliceFrameStep(op, r, uniforms) ==
    /\ pending.frames < MaxSliceFrames
    /\ Commit(r.world)
    /\ lastFrame' = [op |-> op, rendered |-> r.success, effective |-> r.effective,
                     uniforms |-> uniforms, slices |-> SliceWindow(r, uniforms),
                     owed |-> FullRenderOwed(World), afterFailure |-> pending.failed]
    /\ pending' = [pending EXCEPT
                      !.frames = @ + 1,
                      !.failed = ~r.success,
                      !.events = IF r.success THEN {}
                                 ELSE IF FullRenderOwed(World) THEN {"fullRender"}
                                 ELSE {}]
    /\ UNCHANGED <<boundStale, lastCall, exercised>>

\* A handler that left the world w; changed: it changed the configured depth.
SliceHandlerStep(op, w, changed) ==
    /\ pending.handlers < MaxHandlers
    /\ Commit(w)
    /\ lastFrame' = [lastFrame EXCEPT
                        !.op = op,
                        !.slices = IF changed \/ ClearedBetween(World, w)
                                   THEN <<>> ELSE @]
    /\ pending' = [pending EXCEPT
                      !.handlers = @ + 1,
                      !.events = IF FullRenderOwed(w) THEN {"fullRender"} ELSE {}]
    /\ UNCHANGED <<boundStale, lastCall, exercised>>

SliceMainLoop ==
    SliceFrameStep("mainLoop", GalaxySimulator_immediateRender(World),
                   GalaxySimulator_frameUniforms(World))

SliceResize(width) ==
    SliceHandlerStep("resize", GalaxySimulator_resize(World, width, MaxDim), FALSE)

SliceSetTemporalAccumulation(value) ==
    SliceHandlerStep("updateKey", UIManager_updateKey(World, value), TRUE)

SliceSetTotalStarCount(val) ==
    SliceHandlerStep("setTotalStarCount", Galaxy_setTotalStarCount(World, val), FALSE)

SliceNext ==
    \/ SliceMainLoop
    \/ \E width \in Dims : SliceResize(width)
    \/ \E value \in SliceDepths : SliceSetTemporalAccumulation(value)
    \/ \E val \in StarCounts : SliceSetTotalStarCount(val)

SpecSlices == SliceInit /\ [][SliceNext]_vars

\* C34: when the last N rendered frames were all drawn at a depth N > 1 with
\* no clear and no change of depth among them, their temporal frame counters
\* are 0..N-1, each once, and every dust particle, whatever slice its hash
\* falls into, was drawn in exactly one of them.
C34_EverySliceOncePerWindow ==
    LET window == lastFrame.slices
        N == lastFrame.uniforms.temporalAccumulation
    IN  (lastFrame.rendered /\ N > 1 /\ Len(window) = N) =>
            /\ {window[k].temporalFrame : k \in 1..N} = 0..(N - 1)
            /\ \A slice \in 0..(N - 1) :
                   Cardinality({k \in 1..N : vertex_drawsDust(window[k], slice)}) = 1

\* C35: in every rendered frame the depth written into the particle uniform
\* block is the effective depth the frame's layer weights were computed for.
C35_UniformDepthIsEffectiveDepth ==
    lastFrame.rendered => lastFrame.uniforms.temporalAccumulation = lastFrame.effective

\* Four frames at depth 4 that began in the middle of a cycle: the counters
\* of the window are 2, 3, 0, 1.
C34_Witness ==
    /\ lastFrame.op = "mainLoop"
    /\ lastFrame.rendered
    /\ lastFrame.uniforms.temporalAccumulation = 4
    /\ Len(lastFrame.slices) = 4
    /\ lastFrame.slices[1].temporalFrame = 2
    /\ lastFrame.slices[4].temporalFrame = 1

\* A rendered frame under the one-frame override at depth 4: the block and
\* the weights both use depth 1.
C35_Witness ==
    /\ lastFrame.rendered
    /\ lastFrame.uniforms.temporalAccumulation = 1
    /\ lastFrame.effective = 1
    /\ accumulator.lastTemporalAccumulation = 4

\* C36: a rendered frame that a full render was owed to, because
\* requestFullRenderNextFrame() had been called since the last rendered
\* frame, used the effective accumulation depth 1.
C36_FullRenderRequestServed ==
    (lastFrame.rendered /\ lastFrame.owed) => lastFrame.effective = 1

\* ------------------------------------------------------------------------
\* C37, C38, C39: the readback of the timing results
\* ------------------------------------------------------------------------

\* The promise of the awaited map is settled whenever it is pending.
SpecTimingFair == SpecTiming /\ WF_vars(TimingMapSettled)

\* C37: at most one readback of the timing results is in flight: the flag
\* isReadingTimingResults is set exactly while a map of the result buffer
\* is awaited, and neither a frame nor a direct call of readTimingResults()
\* starts a readback while one is awaited, also after the result buffer has
\* been destroyed and made anew.
C37_OneReadbackInFlight ==
    /\ profiler.isReadingTimingResults <=> profiler.mapping # Null
    /\ \A success \in BOOLEAN :
           GalaxySimulator_renderTimed(World, success).read = "awaiting" =>
               profiler.mapping = Null
    /\ PerformanceProfiler_readTimingResults(World).result = "awaiting" =>
           profiler.mapping = Null

\* A rendered frame in which the read was due has started none, because the
\* map of an earlier result buffer, since replaced, is still awaited.
C37_Witness ==
    /\ lastCall.op = "frame"
    /\ lastCall.success
    /\ lastCall.active
    /\ lastCall.read = "none"
    /\ profiler.mapping # Null
    /\ profiler.resultBuffer # Null
    /\ profiler.mapping # profiler.resultBuffer

\* C38: a frame that runs while a readback is in flight records neither the
\* resolve of the query set nor the copy into the result buffer.
C38_NoTimingCopyDuringReadback ==
    /\ (lastCall.op = "frame" /\ profiler.mapping # Null /\ lastCall.read # "awaiting") =>
           ~lastCall.resolved /\ ~lastCall.copied
    /\ profiler.mapping # Null =>
           LET r == RenderingManager_renderTimed(World, TRUE)
           IN  ~r.resolved /\ ~r.copied

\* With the advanced options on and all timing objects alive, a frame has
\* been rendered while the map of the current result buffer was awaited.
C38_Witness ==
    /\ lastCall.op = "frame"
    /\ lastCall.success
    /\ lastCall.read = "none"
    /\ ~lastCall.copied
    /\ profiler.showAdvancedOptions = "true"
    /\ profiler.querySet # Null
    /\ profiler.queryBuffer # Null
    /\ profiler.mapping # Null
    /\ profiler.mapping = profiler.resultBuffer

\* C39: the flag isReadingTimingResults is false once the awaited map has
\* settled, granted or rejected, and a flag that is set is always cleared
\* again.
C39_FlagResetAfterEveryAttempt ==
    /\ [](lastCall.op = "mapSettled" => ~profiler.isReadingTimingResults)
    /\ (profiler.isReadingTimingResults ~> ~profiler.isReadingTimingResults)

\* The map of a destroyed result buffer has been rejected and the flag is
\* clear.
C39_Witness ==
    /\ lastCall.op = "mapSettled"
    /\ lastCall.read = "null"
    /\ ~profiler.isReadingTimingResults

\* ------------------------------------------------------------------------
\* Specification of the scheduling of the main loop
\* ------------------------------------------------------------------------

\* window.requestAnimationFrame(callback) on a window with that many
\* callbacks in its list: the list after it.
window_requestAnimationFrame(callbacks) == callbacks + 1

\* A mainLoop() that asks for the next call only after a frame it made.
GalaxySimulator_mainLoopCallbacks_onlyWhenRendered(w, callbacks) ==
    Then(GalaxySimulator_mainLoop(w),
         LAMBDA r : [world |-> r.world, shouldRender |-> r.shouldRender,
                     callbacks |-> IF r.shouldRender
                                   THEN window_requestAnimationFrame(callbacks)
                                   ELSE callbacks])

\* mainLoop() run from a window with that many other callbacks in its list:
\* after the if statement, on both of its paths, it asks for the next call.
GalaxySimulator_mainLoopCallbacks(w, callbacks) ==
    Then(GalaxySimulator_mainLoop(w),
         LAMBDA r : [world |-> r.world, shouldRender |-> r.shouldRender,
                     callbacks |-> window_requestAnimationFrame(callbacks)])

\* selectPreset(), which ends in immediateRender(): the list of callbacks is
\* left as it is.
GalaxySimulator_selectPresetCallbacks(w, preset, callbacks) ==
    [world |-> GalaxySimulator_selectPreset(w, preset).world, callbacks |-> callbacks]

\* So many handlers of the user interface run.
MaxLoopHandlers == 2

NoLoopCall == [op |-> "none", shouldRender |-> FALSE, requested |-> 0]

\* The last statement of the constructor asks for the first call.
LoopInit ==
    /\ \E b \in Builds :
           Start([GalaxySimulator_constructor(
                      [FreshWorld(MaxDim, MaxDim) EXCEPT !.build = b])
                     EXCEPT !.fps.clock = 1])
    /\ boundStale = {}
    /\ lastCall = NoLoopCall
    /\ exercised = "loop"
    /\ lastFrame = NoLimiterFrame
    /\ pending = [callbacks |-> window_requestAnimationFrame(0), handlers |-> 0]

\* The world r.world and the callbacks r.callbacks are what a handler left
\* that started with before callbacks in the list.
LoopOutcome(op, r, shouldRender, before, handlers) ==
    /\ Commit(r.world)
    /\ lastCall' = [op |-> op, shouldRender |-> shouldRender,
                    requested |-> r.callbacks - before]
    /\ pending' = [callbacks |-> r.callbacks, handlers |-> handlers]
    /\ UNCHANGED <<boundStale, exercised, lastFrame>>

\* The display refreshes: the window takes a callback off its list and runs
\* it.
LoopAnimationFrame(interval) ==
    /\ pending.callbacks > 0
    /\ fps.clock + interval <= MaxTime
    /\ LET r == GalaxySimulator_mainLoopCallbacks(
                    [World EXCEPT !.fps.clock = @ + interval], pending.callbacks - 1)
       IN  LoopOutcome("mainLoop", r, r.shouldRender, pending.callbacks - 1,
                       pending.handlers)

LoopSelectPreset(preset) ==
    /\ pending.handlers < MaxLoopHandlers
    /\ LoopOutcome("immediateRender",
                   GalaxySimulator_selectPresetCallbacks(World, preset, pending.callbacks),
                   TRUE, pending.callbacks, pending.handlers + 1)

LoopSetMaxFrameRate(val) ==
    /\ pending.handlers < MaxLoopHandlers
    /\ LoopOutcome("setMaxFrameRate",
                   [world |-> Galaxy_set(World, "setMaxFrameRate", val).world,
                    callbacks |-> pending.callbacks],
                   FALSE, pending.callbacks, pending.handlers + 1)

LoopNext ==
    \/ \E interval \in RefreshIntervals : LoopAnimationFrame(interval)
    \/ LoopSelectPreset([totalStarCount |-> 1])
    \/ \E val \in FrameRates : LoopSetMaxFrameRate(val)

SpecLoop == LoopInit /\ [][LoopNext]_vars

\* C40: every call of mainLoop() asks for exactly one next call, whether it
\* made a frame or the limiter skipped it, an immediate render asks for
\* none, and between two handlers exactly one callback of the loop is in
\* the list of the window.
C40_OneLoopCallbackPending ==
    /\ pending.callbacks = 1
    /\ lastCall.op = "mainLoop" => lastCall.requested = 1
    /\ lastCall.op = "immediateRender" => lastCall.requested = 0

\* The limiter has skipped the frame of a call of mainLoop(), which has
\* asked for the next call.
C40_Witness ==
    /\ lastCall.op = "mainLoop"
    /\ ~lastCall.shouldRender
    /\ lastCall.requested = 1
    /\ pending.callbacks = 1

====
